---- MODULE Spec2Model ----
(***************************************************************************)
(* A model of the lock micro-benchmark: the lock primitives of             *)
(* include/locks/*.h driven by the worker loop of src/lockTestSys.cpp.     *)
(*                                                                         *)
(* Every atomic operation of the source (load, store, exchange, fetch_add, *)
(* test_and_set, compare_exchange) is one step of the worker that executes *)
(* it; steps of different workers interleave freely, and an atomic load    *)
(* returns the latest value stored.  The memory_order arguments decide     *)
(* which plain writes an atomic operation publishes or makes visible: each *)
(* worker has a view (the newest plain write that happens before its next  *)
(* step), a release operation attaches the view to the atomic, and an      *)
(* acquire operation joins the attached view into the reader's.            *)
(* Thread-local values (my, s, n, prev, succ, ...) are per-worker          *)
(* functions; a local is reset when it goes out of scope.                  *)
(***************************************************************************)
EXTENDS Integers, Naturals, Sequences, FiniteSets, TLC

\* ---------------------------------------------------------------- bounds

\* largest worker count (numThreads_) explored
MaxThreads == 3

\* width in bits of the model's ticket counters (std::uint32_t in the source)
TicketBits == 3

\* the shared counter of the counting workload is kept modulo this
CounterMod == 3

\* log2 of the stop-check stride of the worker loop (6 in the source, where
\* checkEvery is 64)
StrideBits == 1

\* iterations a worker may begin before main raises stop (main's sleep ends
\* before any worker has counted more)
MaxCount == 1

\* largest worker count explored where termination of run_test is checked
FairThreads == 2

\* largest distance my - s explored for the pause schedules
MaxDistance == 24

\* number of times the two-word record is rewritten
MaxVersion == 2

\* ---------------------------------------------------------------- state

VARIABLES
    numThreads,   \* LockTestSys::numThreads_
    lock_,        \* LockTestSys::lock_ : which iLock implementation is under test
    task_,        \* LockTestSys::task_ : which workload runs
    pc,           \* pc[t]: where worker t is in thread_func_lock / lock() / unlock()
    flag_,        \* TasSpinlock::flag_
    state_,       \* TasSpinlockPreLoad::state_
    next_,        \* Ticket*::next_
    serving_,     \* Ticket*::serving_
    my,           \* my[t]: local `my` of lock()
    s,            \* s[t]: local `s` of lock()
    n,            \* n[t]: local `n` of TicketLockPreLoad::lock()
    pauseIters,   \* pauseIters[t]: local `pauseIters` of the back-off locks
    tail_,        \* McsLock::tail_ / McsLockPreLoad::tail_ (0 is nullptr)
    node_next,    \* node_next[t]: Node::next of worker t's node (0 is nullptr)
    node_locked,  \* node_locked[t]: Node::locked of worker t's node
    prev,         \* prev[t]: local `prev` of McsLock::lock()
    succ,         \* succ[t]: local `succ` of McsLock::unlock()
    counter,      \* the plain shared counter of the counting workload
    tmp,          \* tmp[t]: the value worker t read from counter
    completed,    \* number of critical sections completed (modulo CounterMod)
    order,        \* workers in the order their fetch_add / exchange took effect
    window,       \* length of the acquisition window being observed (0: none)
    winLen,       \* acquisitions logged in the observed window so far
    winSeen,      \* worker ids logged in the observed window
    winMust,      \* workers that held a ticket when the observed window began
    ready,        \* SharedTiming::ready
    start,        \* SharedTiming::start
    stop,         \* SharedTiming::stop
    localCount,   \* localCount[t]: local `localCount` of thread_func_lock
    results,      \* results[t]: ThreadResult::count of worker t's slot
    mainPc,       \* where the main thread is in LockTestSys::run_test
    mainI,        \* loop index `i` of run_test's creation and join loops
    total,        \* local `total` of run_test (its return value)
    countAtStop,  \* countAtStop[t]: localCount[t] when stop was raised
    csAtStop,     \* csAtStop[t]: critical sections worker t had run when stop was raised
    view,         \* view[t]: newest version of the record whose writes happen before worker t's next step
    rel,          \* rel[x]: the view a load of atomic x synchronizes with (0: none published)
    word1,        \* first word of the shared two-word record (a version number)
    word2,        \* second word of the shared two-word record
    seen1,        \* seen1[t]: the first word as worker t read or wrote it
    seen2,        \* seen2[t]: the second word as worker t read it
    argv,         \* the command line of main(), one field per option ("" / <<>>: not given)
    args,         \* local `args` of main(): the Args filled by parse_args
    threadCounts, \* local `threadCounts` of main()
    lockKinds,    \* local `lockKinds` of main()
    li,           \* position of `lk` in main()'s loop over lockKinds
    ti,           \* position of `tc` in main()'s loop over threadCounts
    cliPc,        \* where main() is
    exitCode,     \* the value main() returned (-1: it has not returned)
    cerr,         \* the lines written to std::cerr
    waits,        \* the last rounds of a ticket wait loop: distance seen, relax cycles paused, whether the waiter yielded
    runs          \* the experiments run: <<lock, tc, duration>> of every LockTestSys whose run_test was called

cliVars == <<argv, args, threadCounts, lockKinds, li, ti, cliPc, exitCode, cerr, runs>>
sysVars == <<numThreads, lock_, task_, cliVars, waits>>
timingVars == <<ready, start, stop>>
workerVars == <<localCount, results>>
mainVars == <<mainPc, mainI, total>>
stopVars == <<countAtStop, csAtStop>>
harnessVars == <<sysVars, timingVars, workerVars, mainVars, stopVars>>
tasVars == <<flag_, state_>>
ticketVars == <<next_, serving_, my, s, n, pauseIters>>
mcsVars == <<tail_, node_next, node_locked, prev, succ>>
counterVars == <<counter, tmp, completed>>
logVars == <<window, winLen, winSeen, winMust>>

memVars == <<view, rel>>
recordVars == <<word1, word2, seen1, seen2>>
lockVars == <<tasVars, ticketVars, mcsVars, memVars>>
workloadVars == <<counterVars, order, logVars, recordVars>>
testVars == <<numThreads, lock_, task_, timingVars, workerVars, mainVars, stopVars, pc, lockVars, workloadVars, waits>>

vars == <<harnessVars, pc, tasVars, ticketVars, mcsVars, memVars, counterVars, order, logVars, recordVars>>

Workers == 1 .. numThreads

\* nullptr
Null == 0

\* std::uint32_t arithmetic, at the model's width
Modulus == 2 ^ TicketBits

U32(x) == x % Modulus

\* ------------------------------------------------------- memory order

\* The atomic objects of the locks: the lock words, and Node::next and
\* Node::locked of every worker's queue node.
Locations ==
    ({"flag_", "state_", "next_", "serving_", "tail_"} \X {0})
        \cup ({"next", "locked"} \X (1 .. MaxThreads))

Max(a, b) == IF a >= b THEN a ELSE b

\* The operation is an acquire operation when it reads.
Acquires(mo) == mo \in {"acquire", "acq_rel", "seq_cst"}

\* The operation is a release operation when it writes.
Releases(mo) == mo \in {"release", "acq_rel", "seq_cst"}

\* x.load(mo) by worker t: an acquire load synchronizes with the release
\* operation heading the release sequence it reads from.
Load(t, x, mo) ==
    /\ view' = [view EXCEPT ![t] = IF Acquires(mo) THEN Max(@, rel[x]) ELSE @]
    /\ UNCHANGED rel

\* x.store(v, mo) by worker t: a release store publishes the worker's view,
\* any other store ends the release sequence.
Store(t, x, mo) ==
    /\ rel' = [rel EXCEPT ![x] = IF Releases(mo) THEN view[t] ELSE 0]
    /\ UNCHANGED view

\* A read-modify-write of x by worker t (exchange, fetch_add, test_and_set,
\* a successful compare_exchange): it reads like a load, and it continues
\* the release sequence it reads from, adding its own view when it releases.
Rmw(t, x, mo) ==
    /\ view' = [view EXCEPT ![t] = IF Acquires(mo) THEN Max(@, rel[x]) ELSE @]
    /\ rel' = [rel EXCEPT ![x] = IF Releases(mo) THEN Max(@, view[t]) ELSE @]

\* --------------------------------------------------------------- main()

\* A command line with no option.
NoArgv == [t |-> "", T |-> <<>>, B |-> <<>>, L |-> <<>>, l |-> "", d |-> "", r |-> "", bad |-> FALSE]

\* struct Args as default-initialised.
DefaultArgs ==
    [threads |-> 0, explicitThreads |-> FALSE, threadsList |-> <<>>, threadBins |-> <<>>,
     locks |-> <<>>, lockKind |-> "mutex", runTask |-> "do_nothing", duration |-> 2]

\* ------------------------------------------------------- initial state

\* State after construction of lock, task and LockTestSys: the lock under
\* test, the workload and the result slots as run_test finds them.
InitShared(kinds, tasks, counts) ==
    /\ argv = NoArgv
    /\ args = DefaultArgs
    /\ threadCounts = <<>>
    /\ lockKinds = <<>>
    /\ li = 0
    /\ ti = 0
    /\ exitCode = -1
    /\ cerr = <<>>
    /\ runs = {}
    /\ waits = <<>>
    /\ numThreads \in counts
    /\ lock_ \in kinds
    /\ task_ \in tasks
    /\ flag_ = FALSE
    /\ state_ = 0
    /\ next_ = 0
    /\ serving_ = 0
    /\ my = [t \in 1 .. numThreads |-> 0]
    /\ s = [t \in 1 .. numThreads |-> 0]
    /\ n = [t \in 1 .. numThreads |-> 0]
    /\ pauseIters = [t \in 1 .. numThreads |-> 0]
    /\ tail_ = Null
    /\ node_next = [t \in 1 .. numThreads |-> Null]
    /\ node_locked = [t \in 1 .. numThreads |-> FALSE]
    /\ prev = [t \in 1 .. numThreads |-> Null]
    /\ succ = [t \in 1 .. numThreads |-> Null]
    /\ counter = 0
    /\ tmp = [t \in 1 .. numThreads |-> 0]
    /\ completed = 0
    /\ order = <<>>
    /\ winLen = 0
    /\ winSeen = {}
    /\ winMust = {}
    /\ stop = FALSE
    /\ localCount = [t \in 1 .. numThreads |-> 0]
    /\ results = [t \in 1 .. numThreads |-> 0]
    /\ total = 0
    /\ countAtStop = [t \in 1 .. numThreads |-> 0]
    /\ csAtStop = [t \in 1 .. numThreads |-> 0]
    /\ view = [t \in 1 .. numThreads |-> 0]
    /\ rel = [x \in Locations |-> 0]
    /\ word1 = 0
    /\ word2 = 0
    /\ seen1 = [t \in 1 .. numThreads |-> 0]
    /\ seen2 = [t \in 1 .. numThreads |-> 0]

\* The measurement window of run_test: all workers started and released
\* into the loop, main asleep.
InitWith(kinds, tasks, counts) ==
    /\ InitShared(kinds, tasks, counts)
    /\ cliPc = "run_test"
    /\ pc = [t \in 1 .. numThreads |-> "parallel"]
    /\ ready = numThreads
    /\ start = TRUE
    /\ mainPc = "sleep"
    /\ mainI = 0

\* ---------------------------------------------------------- worker loop

\* Worker t is between a returned unlock() and its next lock(): ++localCount,
\* the loop top, run_parallel(), then the call of lock().
RunParallel(t) ==
    /\ pc[t] = "parallel"
    /\ pc' = [pc EXCEPT ![t] = "lock"]
    /\ UNCHANGED <<harnessVars, recordVars, tasVars, ticketVars, mcsVars, counterVars, order, logVars>>
    /\ UNCHANGED memVars

\* run_locked() of DoNothingTask / CpuBurnTask: touches no shared state.
RunLocked(t) ==
    /\ pc[t] = "locked"
    /\ task_ = "do_nothing"
    /\ pc' = [pc EXCEPT ![t] = "unlock"]
    /\ UNCHANGED <<harnessVars, recordVars, tasVars, ticketVars, mcsVars, counterVars, order, logVars>>
    /\ UNCHANGED memVars

\* run_locked() of the counting workload: a plain (non-atomic) increment of a
\* shared counter, i.e. a read followed by a write.
RunLockedRead(t) ==
    /\ pc[t] = "locked"
    /\ task_ = "counter"
    /\ tmp' = [tmp EXCEPT ![t] = counter]
    /\ pc' = [pc EXCEPT ![t] = "locked_write"]
    /\ UNCHANGED <<harnessVars, recordVars, tasVars, ticketVars, mcsVars, counter, completed, order, logVars>>
    /\ UNCHANGED memVars

RunLockedWrite(t) ==
    /\ pc[t] = "locked_write"
    /\ counter' = (tmp[t] + 1) % CounterMod
    /\ completed' = (completed + 1) % CounterMod
    /\ tmp' = [tmp EXCEPT ![t] = 0]
    /\ pc' = [pc EXCEPT ![t] = "unlock"]
    /\ UNCHANGED <<harnessVars, recordVars, tasVars, ticketVars, mcsVars, order, logVars>>
    /\ UNCHANGED memVars

\* Workers that hold a ticket they have not been served on yet.
TicketHolders == {u \in Workers : pc[u] \in {"ticket_spin", "ticket_relax"}}

\* run_locked() of the logging workload: the acquiring worker's id is appended
\* to the acquisition log.  Of the log, one window of `window` consecutive
\* acquisitions is kept: its length, the ids in it, and the workers that held
\* a ticket when it began.  Any acquisition may begin the window; a complete
\* window is dropped at the next acquisition.
RunLockedLog(t) ==
    /\ pc[t] = "locked"
    /\ task_ = "log"
    /\ LET fresh == winLen = 0 \/ winLen = window
       IN  \/ /\ fresh
              /\ winLen' = 0
              /\ winSeen' = {}
              /\ winMust' = {}
           \/ /\ fresh
              /\ winLen' = 1
              /\ winSeen' = {t}
              /\ winMust' = TicketHolders \cup {t}
           \/ /\ ~fresh
              /\ winLen' = winLen + 1
              /\ winSeen' = winSeen \cup {t}
              /\ winMust' = winMust
    /\ pc' = [pc EXCEPT ![t] = "unlock"]
    /\ UNCHANGED <<harnessVars, recordVars, tasVars, ticketVars, mcsVars, counterVars, order, window>>
    /\ UNCHANGED memVars

\* run_locked() of the record workload: read both words of the record, then
\* rewrite both.  A plain read returns a write that is not older than the
\* newest write that happens before it.
RecordRead1(t) ==
    /\ pc[t] = "locked"
    /\ task_ = "record"
    /\ \E v \in view[t] .. word1 : seen1' = [seen1 EXCEPT ![t] = v]
    /\ pc' = [pc EXCEPT ![t] = "rec_read2"]
    /\ UNCHANGED <<harnessVars, lockVars, counterVars, order, logVars, word1, word2, seen2>>

RecordRead2(t) ==
    /\ pc[t] = "rec_read2"
    /\ \E v \in view[t] .. word2 : seen2' = [seen2 EXCEPT ![t] = v]
    /\ pc' = [pc EXCEPT ![t] = "rec_write1"]
    /\ UNCHANGED <<harnessVars, lockVars, counterVars, order, logVars, word1, word2, seen1>>

\* The record is rewritten MaxVersion times; later critical sections only
\* read it.
RecordWrite1(t) ==
    /\ pc[t] = "rec_write1"
    /\ IF word1 < MaxVersion
         THEN /\ word1' = word1 + 1
              /\ seen1' = [seen1 EXCEPT ![t] = word1 + 1]
              /\ seen2' = [seen2 EXCEPT ![t] = 0]
              /\ pc' = [pc EXCEPT ![t] = "rec_write2"]
         ELSE /\ seen1' = [seen1 EXCEPT ![t] = 0]
              /\ seen2' = [seen2 EXCEPT ![t] = 0]
              /\ pc' = [pc EXCEPT ![t] = "unlock"]
              /\ UNCHANGED word1
    /\ UNCHANGED <<harnessVars, lockVars, counterVars, order, logVars, word2>>

RecordWrite2(t) ==
    /\ pc[t] = "rec_write2"
    /\ word2' = seen1[t]
    /\ view' = [view EXCEPT ![t] = Max(@, seen1[t])]
    /\ seen1' = [seen1 EXCEPT ![t] = 0]
    /\ pc' = [pc EXCEPT ![t] = "unlock"]
    /\ UNCHANGED <<harnessVars, tasVars, ticketVars, mcsVars, rel, counterVars, order, logVars, word1, seen2>>

\* A bug: unlock() clears the flag with a relaxed store.
TasUnlockOrderRelaxed == "relaxed"

\* The memory order of flag_.clear() in TasSpinlock::unlock().
TasUnlockOrder == "release"

\* ---------------------------------------------------------- TasSpinlock

\* A bug: the value test_and_set returns is ignored.
TasLockAcquiredAlways(t) == TRUE

\* test_and_set returns the previous value of flag_: the loop of
\* TasSpinlock::lock() ends when it was clear.
TasLockAcquired(t) == ~flag_

TasLock(t) ==
    /\ pc[t] = "lock"
    /\ lock_ = "tas"
    /\ flag_' = TRUE
    /\ pc' = [pc EXCEPT ![t] = IF TasLockAcquired(t) THEN "locked" ELSE "lock"]
    /\ UNCHANGED <<harnessVars, recordVars, state_, ticketVars, mcsVars, counterVars, order, logVars>>
    /\ Rmw(t, <<"flag_", 0>>, "acquire")

TasUnlock(t) ==
    /\ pc[t] = "unlock"
    /\ lock_ = "tas"
    /\ flag_' = FALSE
    /\ pc' = [pc EXCEPT ![t] = "parallel"]
    /\ UNCHANGED <<harnessVars, recordVars, state_, ticketVars, mcsVars, counterVars, order, logVars>>
    /\ Store(t, <<"flag_", 0>>, TasUnlockOrder)

\* --------------------------------------------------- TasSpinlockPreLoad

\* The relaxed load: stay in the loop while the lock looks taken.
TasPreLoadObserve(t) ==
    /\ pc[t] = "lock"
    /\ lock_ = "tas_preload"
    /\ pc' = [pc EXCEPT ![t] = IF state_ # 0 THEN "lock" ELSE "tas_cas"]
    /\ UNCHANGED <<harnessVars, recordVars, tasVars, ticketVars, mcsVars, counterVars, order, logVars>>
    /\ Load(t, <<"state_", 0>>, "relaxed")

\* compare_exchange_weak(expected = 0, 1) succeeds only on an unlocked state_.
TasPreLoadCasOk(t) == state_ = 0

TasPreLoadCas(t) ==
    /\ pc[t] = "tas_cas"
    /\ TasPreLoadCasOk(t)
    /\ state_' = 1
    /\ pc' = [pc EXCEPT ![t] = "locked"]
    /\ UNCHANGED <<harnessVars, recordVars, flag_, ticketVars, mcsVars, counterVars, order, logVars>>
    /\ Rmw(t, <<"state_", 0>>, "acquire")

\* compare_exchange_weak fails: state_ differs, or the failure is spurious.
TasPreLoadCasFail(t) ==
    /\ pc[t] = "tas_cas"
    /\ pc' = [pc EXCEPT ![t] = "lock"]
    /\ UNCHANGED <<harnessVars, recordVars, tasVars, ticketVars, mcsVars, counterVars, order, logVars>>
    /\ Load(t, <<"state_", 0>>, "relaxed")

TasPreLoadUnlock(t) ==
    /\ pc[t] = "unlock"
    /\ lock_ = "tas_preload"
    /\ state_' = 0
    /\ pc' = [pc EXCEPT ![t] = "parallel"]
    /\ UNCHANGED <<harnessVars, recordVars, flag_, ticketVars, mcsVars, counterVars, order, logVars>>
    /\ Store(t, <<"state_", 0>>, "release")

\* ----------------------------------------------------------- TicketLock

\* next_.v.fetch_add(1): the worker takes ticket `my`.  The same statement
\* opens lock() of TicketLock, TicketBackOff, TicketBackOffAndPreFetch (after
\* its prefetch hint) and TicketAdaptive.
QueueingTicketKinds ==
    {"ticket", "ticket_backoff", "ticket_backoff_prefetch", "ticket_adaptive"}

\* A bug: next_ is read with a load instead of fetch_add(1).
TicketAfterTakeSame(t) == next_

\* The value fetch_add(1) leaves in next_.
TicketAfterTake(t) == U32(next_ + 1)

TicketFetchAdd(t) ==
    /\ pc[t] = "lock"
    /\ lock_ \in QueueingTicketKinds
    /\ my' = [my EXCEPT ![t] = next_]
    /\ next_' = TicketAfterTake(t)
    /\ order' = Append(order, t)
    /\ pc' = [pc EXCEPT ![t] = "ticket_spin"]
    /\ UNCHANGED <<harnessVars, recordVars, tasVars, serving_, s, n, pauseIters, mcsVars, counterVars, logVars>>
    /\ Rmw(t, <<"next_", 0>>, "relaxed")

\* A bug: the wait loop is left without waiting for the worker's turn.
TicketTurnNoWait(t) == TRUE

\* A bug: the wait loop compares the counters in order instead of for
\* equality.
TicketTurnOrdered(t) == serving_ >= my[t]

\* The exit test of the wait loops: serving_ equals the worker's ticket.
TicketTurn(t) == serving_ = my[t]

\* The worker leaves lock(): it is no longer queued.
Leave(q, t) == SelectSeq(q, LAMBDA x : x # t)

\* One load of the wait loop of TicketLock::lock().
TicketLockSpin(t) ==
    /\ pc[t] = "ticket_spin"
    /\ lock_ = "ticket"
    /\ IF TicketTurn(t)
         THEN /\ pc' = [pc EXCEPT ![t] = "locked"]
              /\ my' = [my EXCEPT ![t] = 0]
              /\ order' = Leave(order, t)
         ELSE UNCHANGED <<pc, my, order>>
    /\ UNCHANGED <<harnessVars, recordVars, tasVars, next_, serving_, s, n, pauseIters, mcsVars, counterVars, logVars>>
    /\ Load(t, <<"serving_", 0>>, "acquire")

\* serving_.v.fetch_add(1): unlock() of every ticket lock.
TicketKinds == QueueingTicketKinds \cup {"ticket_preload"}

\* A bug: unlock() advances serving_ by two.
TicketServeNextSkip(t) == U32(serving_ + 2)

TicketServeNext(t) == U32(serving_ + 1)

TicketUnlock(t) ==
    /\ pc[t] = "unlock"
    /\ lock_ \in TicketKinds
    /\ serving_' = TicketServeNext(t)
    /\ pc' = [pc EXCEPT ![t] = "parallel"]
    /\ UNCHANGED <<harnessVars, recordVars, tasVars, next_, my, s, n, pauseIters, mcsVars, counterVars, order, logVars>>
    /\ Rmw(t, <<"serving_", 0>>, "release")

\* --------------------------------- TicketBackOff, TicketBackOffAndPreFetch

\* A bug: the pause does not grow with the distance.
BackOffPauseFlat(d) == 16

\* pauseIters = (d > 0 ? d - 1 : 0) * 32u + 16u
BackOffPause(d) == (IF d > 0 THEN d - 1 ELSE 0) * 32 + 16

\* One round of the wait loop: load serving_, leave on our turn, otherwise
\* compute the pause from the distance d = my - s.
TicketBackOffSpin(t) ==
    /\ pc[t] = "ticket_spin"
    /\ lock_ \in {"ticket_backoff", "ticket_backoff_prefetch"}
    /\ IF TicketTurn(t)
         THEN /\ pc' = [pc EXCEPT ![t] = "locked"]
              /\ my' = [my EXCEPT ![t] = 0]
              /\ order' = Leave(order, t)
              /\ UNCHANGED pauseIters
         ELSE /\ pauseIters' = [pauseIters EXCEPT ![t] = BackOffPause(U32(my[t] - serving_))]
              /\ pc' = [pc EXCEPT ![t] = "ticket_relax"]
              /\ UNCHANGED <<my, order>>
    /\ UNCHANGED <<harnessVars, recordVars, tasVars, next_, serving_, s, n, mcsVars, counterVars, logVars>>
    /\ Load(t, <<"serving_", 0>>, "acquire")

\* cpu_relax_n(pauseIters), then back to the top of the wait loop, where the
\* local pauseIters goes out of scope.
CpuRelax(t) ==
    /\ pc[t] = "ticket_relax"
    /\ pauseIters' = [pauseIters EXCEPT ![t] = 0]
    /\ pc' = [pc EXCEPT ![t] = "ticket_spin"]
    /\ UNCHANGED <<harnessVars, recordVars, tasVars, next_, serving_, my, s, n, mcsVars, counterVars, order, logVars>>
    /\ UNCHANGED memVars

\* ------------------------------------------------------- TicketAdaptive

\* A bug: the far band is missing, the pause keeps growing with d.
AdaptivePauseUncapped(d) ==
    IF d <= 1 THEN 16
    ELSE IF d <= 4 THEN 32 + (d - 1) * 16
    ELSE 128 + (d - 4) * 16

\* pauseIters of TicketAdaptive::lock() for distance d.
AdaptivePause(d) ==
    IF d <= 1 THEN 16
    ELSE IF d <= 4 THEN 32 + (d - 1) * 16
    ELSE IF d <= 16 THEN 128 + (d - 4) * 16
    ELSE 512

TicketAdaptiveSpin(t) ==
    /\ pc[t] = "ticket_spin"
    /\ lock_ = "ticket_adaptive"
    /\ IF TicketTurn(t)
         THEN /\ pc' = [pc EXCEPT ![t] = "locked"]
              /\ my' = [my EXCEPT ![t] = 0]
              /\ order' = Leave(order, t)
              /\ UNCHANGED pauseIters
         ELSE /\ pauseIters' = [pauseIters EXCEPT ![t] = AdaptivePause(U32(my[t] - serving_))]
              /\ pc' = [pc EXCEPT ![t] = "ticket_relax"]
              /\ UNCHANGED <<my, order>>
    /\ UNCHANGED <<harnessVars, recordVars, tasVars, next_, serving_, s, n, mcsVars, counterVars, logVars>>
    /\ Load(t, <<"serving_", 0>>, "acquire")

\* ------------------------------------- the pause schedules on their own

\* The rounds of a wait loop that are remembered: the last two.
Remember(q, r) == IF Len(q) < 2 THEN Append(q, r) ELSE <<q[2], r>>

\* One round of the wait loop of TicketBackOff / TicketBackOffAndPreFetch with
\* s != my: the distance d = my - s is any value from 1 up, the waiter
\* pauses pauseIters relax cycles and loads serving_ again.
BackOffRound ==
    /\ lock_ \in {"ticket_backoff", "ticket_backoff_prefetch"}
    /\ \E d \in 1 .. MaxDistance :
        waits' = Remember(waits, [d |-> d, cycles |-> BackOffPause(d), yielded |-> FALSE])
    /\ UNCHANGED <<cliVars, numThreads, lock_, task_, timingVars, workerVars, mainVars, stopVars, pc, lockVars, workloadVars>>

\* One round of the wait loop of TicketAdaptive with s != my.
AdaptiveRound ==
    /\ lock_ = "ticket_adaptive"
    /\ \E d \in 1 .. MaxDistance :
        waits' = Remember(waits, [d |-> d, cycles |-> AdaptivePause(d), yielded |-> FALSE])
    /\ UNCHANGED <<cliVars, numThreads, lock_, task_, timingVars, workerVars, mainVars, stopVars, pc, lockVars, workloadVars>>

\* ---------------------------------------------------- TicketLockPreLoad

\* s = serving_.v.load(relaxed)
TicketPreLoadS(t) ==
    /\ pc[t] = "lock"
    /\ lock_ = "ticket_preload"
    /\ s' = [s EXCEPT ![t] = serving_]
    /\ pc' = [pc EXCEPT ![t] = "tp_load_n"]
    /\ UNCHANGED <<harnessVars, recordVars, tasVars, next_, serving_, my, n, pauseIters, mcsVars, counterVars, order, logVars>>
    /\ Load(t, <<"serving_", 0>>, "relaxed")

\* n = next_.v.load(relaxed); if (s == n) go for the CAS, else continue (the
\* locals s and n of the loop body go out of scope).
TicketPreLoadN(t) ==
    /\ pc[t] = "tp_load_n"
    /\ IF s[t] = next_
         THEN /\ n' = [n EXCEPT ![t] = next_]
              /\ pc' = [pc EXCEPT ![t] = "tp_cas"]
              /\ UNCHANGED s
         ELSE /\ n' = [n EXCEPT ![t] = 0]
              /\ s' = [s EXCEPT ![t] = 0]
              /\ pc' = [pc EXCEPT ![t] = "lock"]
    /\ UNCHANGED <<harnessVars, recordVars, tasVars, next_, serving_, my, pauseIters, mcsVars, counterVars, order, logVars>>
    /\ Load(t, <<"next_", 0>>, "relaxed")

\* A bug: next_ is stored without comparing it with the value observed.
TicketPreLoadCasBlind(t) == TRUE

\* next_.v.compare_exchange_weak(expected = n, n + 1) succeeds only if next_
\* still holds n.
TicketPreLoadCasOk(t) == next_ = n[t]

TicketPreLoadCas(t) ==
    /\ pc[t] = "tp_cas"
    /\ TicketPreLoadCasOk(t)
    /\ next_' = U32(n[t] + 1)
    /\ pc' = [pc EXCEPT ![t] = "tp_wait"]
    /\ UNCHANGED <<harnessVars, recordVars, tasVars, serving_, my, s, n, pauseIters, mcsVars, counterVars, order, logVars>>
    /\ Rmw(t, <<"next_", 0>>, "acq_rel")

\* The CAS fails (next_ moved on, or spuriously): back to the top of the loop.
TicketPreLoadCasFail(t) ==
    /\ pc[t] = "tp_cas"
    /\ s' = [s EXCEPT ![t] = 0]
    /\ n' = [n EXCEPT ![t] = 0]
    /\ pc' = [pc EXCEPT ![t] = "lock"]
    /\ UNCHANGED <<harnessVars, recordVars, tasVars, next_, serving_, my, pauseIters, mcsVars, counterVars, order, logVars>>
    /\ Load(t, <<"next_", 0>>, "relaxed")

\* while (serving_.v.load(acquire) != n) {}
TicketPreLoadWait(t) ==
    /\ pc[t] = "tp_wait"
    /\ IF serving_ = n[t]
         THEN /\ pc' = [pc EXCEPT ![t] = "locked"]
              /\ s' = [s EXCEPT ![t] = 0]
              /\ n' = [n EXCEPT ![t] = 0]
         ELSE UNCHANGED <<pc, s, n>>
    /\ UNCHANGED <<harnessVars, recordVars, tasVars, next_, serving_, my, pauseIters, mcsVars, counterVars, order, logVars>>
    /\ Load(t, <<"serving_", 0>>, "acquire")

\* -------------------------------------------------------------- McsLock

\* me.next.store(nullptr): first statement of McsLock::lock().
McsInitNext(t) ==
    /\ pc[t] = "lock"
    /\ lock_ = "mcs"
    /\ node_next' = [node_next EXCEPT ![t] = Null]
    /\ pc' = [pc EXCEPT ![t] = "mcs_set_locked"]
    /\ UNCHANGED <<harnessVars, recordVars, tasVars, ticketVars, tail_, node_locked, prev, succ, counterVars, order, logVars>>
    /\ Store(t, <<"next", t>>, "relaxed")

\* A bug: the node's flag is not raised before the node is enqueued.
McsInitialLockedFalse == FALSE

\* The value lock() stores to me.locked before the exchange.
McsInitialLocked == TRUE

\* me.locked.store(true)
McsInitLocked(t) ==
    /\ pc[t] = "mcs_set_locked"
    /\ node_locked' = [node_locked EXCEPT ![t] = McsInitialLocked]
    /\ pc' = [pc EXCEPT ![t] = "mcs_exchange"]
    /\ UNCHANGED <<harnessVars, recordVars, tasVars, ticketVars, tail_, node_next, prev, succ, counterVars, order, logVars>>
    /\ Store(t, <<"locked", t>>, "relaxed")

\* prev = tail_.exchange(&me); then the branch on prev != nullptr.
McsExchange(t) ==
    /\ pc[t] = "mcs_exchange"
    /\ prev' = [prev EXCEPT ![t] = tail_]
    /\ tail_' = t
    /\ order' = Append(order, t)
    /\ pc' = [pc EXCEPT ![t] = IF tail_ # Null THEN "mcs_link" ELSE "mcs_direct"]
    /\ UNCHANGED <<harnessVars, recordVars, tasVars, ticketVars, node_next, node_locked, succ, counterVars, logVars>>
    /\ Rmw(t, <<"tail_", 0>>, "acq_rel")

\* prev->next.store(&me)
McsLink(t) ==
    /\ pc[t] = "mcs_link"
    /\ node_next' = [node_next EXCEPT ![prev[t]] = t]
    /\ pc' = [pc EXCEPT ![t] = "mcs_wait"]
    /\ UNCHANGED <<harnessVars, recordVars, tasVars, ticketVars, tail_, node_locked, prev, succ, counterVars, order, logVars>>
    /\ Store(t, <<"next", prev[t]>>, "release")

\* One load of while (me.locked.load(acquire)) {}
McsWait(t) ==
    /\ pc[t] = "mcs_wait"
    /\ IF node_locked[t]
         THEN UNCHANGED <<pc, prev, order>>
         ELSE /\ pc' = [pc EXCEPT ![t] = "locked"]
              /\ prev' = [prev EXCEPT ![t] = Null]
              /\ order' = Leave(order, t)
    /\ UNCHANGED <<harnessVars, recordVars, tasVars, ticketVars, tail_, node_next, node_locked, succ, counterVars, logVars>>
    /\ Load(t, <<"locked", t>>, "acquire")

\* prev == nullptr: me.locked.store(false); lock() returns.
McsDirect(t) ==
    /\ pc[t] = "mcs_direct"
    /\ node_locked' = [node_locked EXCEPT ![t] = FALSE]
    /\ order' = Leave(order, t)
    /\ pc' = [pc EXCEPT ![t] = "locked"]
    /\ UNCHANGED <<harnessVars, recordVars, tasVars, ticketVars, tail_, node_next, prev, succ, counterVars, logVars>>
    /\ Store(t, <<"locked", t>>, "relaxed")

\* succ = me.next.load(acquire): first statement of McsLock::unlock().
McsLoadSucc(t) ==
    /\ pc[t] = "unlock"
    /\ lock_ = "mcs"
    /\ succ' = [succ EXCEPT ![t] = node_next[t]]
    /\ pc' = [pc EXCEPT ![t] = IF node_next[t] = Null THEN "mcs_cas" ELSE "mcs_pass"]
    /\ UNCHANGED <<harnessVars, recordVars, tasVars, ticketVars, tail_, node_next, node_locked, prev, counterVars, order, logVars>>
    /\ Load(t, <<"next", t>>, "acquire")

\* tail_.compare_exchange_strong(expected = &me, nullptr): on success unlock()
\* returns, on failure the worker waits for its successor to link.
McsReleaseCas(t) ==
    /\ pc[t] = "mcs_cas"
    /\ IF tail_ = t
         THEN /\ tail_' = Null
              /\ pc' = [pc EXCEPT ![t] = "parallel"]
         ELSE /\ pc' = [pc EXCEPT ![t] = "mcs_await_succ"]
              /\ UNCHANGED tail_
    /\ UNCHANGED <<harnessVars, recordVars, tasVars, ticketVars, node_next, node_locked, prev, succ, counterVars, order, logVars>>
    /\ IF tail_ = t THEN Rmw(t, <<"tail_", 0>>, "acq_rel") ELSE Load(t, <<"tail_", 0>>, "relaxed")

\* do { succ = me.next.load(acquire); } while (succ == nullptr);
McsAwaitSucc(t) ==
    /\ pc[t] = "mcs_await_succ"
    /\ succ' = [succ EXCEPT ![t] = node_next[t]]
    /\ pc' = [pc EXCEPT ![t] = IF node_next[t] = Null THEN "mcs_await_succ" ELSE "mcs_pass"]
    /\ UNCHANGED <<harnessVars, recordVars, tasVars, ticketVars, tail_, node_next, node_locked, prev, counterVars, order, logVars>>
    /\ Load(t, <<"next", t>>, "acquire")

\* A bug: unlock() hands the lock to the node at the tail of the queue.
McsPassTargetTail(t) == tail_

\* The node whose locked flag unlock() clears: succ.
McsPassTarget(t) == succ[t]

\* succ->locked.store(false)
McsPass(t) ==
    /\ pc[t] = "mcs_pass"
    /\ node_locked' = [node_locked EXCEPT ![McsPassTarget(t)] = FALSE]
    /\ pc' = [pc EXCEPT ![t] = "mcs_unlink"]
    /\ UNCHANGED <<harnessVars, recordVars, tasVars, ticketVars, tail_, node_next, prev, succ, counterVars, order, logVars>>
    /\ Store(t, <<"locked", McsPassTarget(t)>>, "release")

\* me.next.store(nullptr); unlock() returns.
McsUnlink(t) ==
    /\ pc[t] = "mcs_unlink"
    /\ node_next' = [node_next EXCEPT ![t] = Null]
    /\ succ' = [succ EXCEPT ![t] = Null]
    /\ pc' = [pc EXCEPT ![t] = "parallel"]
    /\ UNCHANGED <<harnessVars, recordVars, tasVars, ticketVars, tail_, node_locked, prev, counterVars, order, logVars>>
    /\ Store(t, <<"next", t>>, "relaxed")

\* ------------------------------------------------------- McsLockPreLoad

\* me.next.store(nullptr): first statement of McsLockPreLoad::lock().
McsPreLoadInitNext(t) ==
    /\ pc[t] = "lock"
    /\ lock_ = "mcs_preload"
    /\ node_next' = [node_next EXCEPT ![t] = Null]
    /\ pc' = [pc EXCEPT ![t] = "mp_set_locked"]
    /\ UNCHANGED <<harnessVars, recordVars, tasVars, ticketVars, tail_, node_locked, prev, succ, counterVars, order, logVars>>
    /\ Store(t, <<"next", t>>, "relaxed")

\* me.locked.store(true)
McsPreLoadInitLocked(t) ==
    /\ pc[t] = "mp_set_locked"
    /\ node_locked' = [node_locked EXCEPT ![t] = TRUE]
    /\ pc' = [pc EXCEPT ![t] = "mp_observe"]
    /\ UNCHANGED <<harnessVars, recordVars, tasVars, ticketVars, tail_, node_next, prev, succ, counterVars, order, logVars>>
    /\ Store(t, <<"locked", t>>, "relaxed")

\* t = tail_.load(relaxed); if (t != nullptr) continue;
McsPreLoadObserve(t) ==
    /\ pc[t] = "mp_observe"
    /\ pc' = [pc EXCEPT ![t] = IF tail_ # Null THEN "mp_observe" ELSE "mp_cas"]
    /\ UNCHANGED <<harnessVars, recordVars, tasVars, ticketVars, mcsVars, counterVars, order, logVars>>
    /\ Load(t, <<"tail_", 0>>, "relaxed")

\* A bug: tail_ is stored without comparing it with nullptr.
McsPreLoadCasBlind(t) == TRUE

\* tail_.compare_exchange_weak(expected = nullptr, &me) succeeds only on a
\* null tail_.
McsPreLoadCasOk(t) == tail_ = Null

McsPreLoadCas(t) ==
    /\ pc[t] = "mp_cas"
    /\ McsPreLoadCasOk(t)
    /\ tail_' = t
    /\ pc' = [pc EXCEPT ![t] = "mp_clear_locked"]
    /\ UNCHANGED <<harnessVars, recordVars, tasVars, ticketVars, node_next, node_locked, prev, succ, counterVars, order, logVars>>
    /\ Rmw(t, <<"tail_", 0>>, "acq_rel")

\* The CAS fails (tail_ is taken, or spuriously): back to the top of the loop.
McsPreLoadCasFail(t) ==
    /\ pc[t] = "mp_cas"
    /\ pc' = [pc EXCEPT ![t] = "mp_observe"]
    /\ UNCHANGED <<harnessVars, recordVars, tasVars, ticketVars, mcsVars, counterVars, order, logVars>>
    /\ Load(t, <<"tail_", 0>>, "relaxed")

\* me.locked.store(false); lock() returns.
McsPreLoadClearLocked(t) ==
    /\ pc[t] = "mp_clear_locked"
    /\ node_locked' = [node_locked EXCEPT ![t] = FALSE]
    /\ pc' = [pc EXCEPT ![t] = "locked"]
    /\ UNCHANGED <<harnessVars, recordVars, tasVars, ticketVars, tail_, node_next, prev, succ, counterVars, order, logVars>>
    /\ Store(t, <<"locked", t>>, "relaxed")

\* (void)tail_.compare_exchange_strong(expected = &me, nullptr)
McsPreLoadReleaseCas(t) ==
    /\ pc[t] = "unlock"
    /\ lock_ = "mcs_preload"
    /\ tail_' = IF tail_ = t THEN Null ELSE tail_
    /\ pc' = [pc EXCEPT ![t] = "mp_unlink"]
    /\ UNCHANGED <<harnessVars, recordVars, tasVars, ticketVars, node_next, node_locked, prev, succ, counterVars, order, logVars>>
    /\ IF tail_ = t THEN Rmw(t, <<"tail_", 0>>, "acq_rel") ELSE Load(t, <<"tail_", 0>>, "relaxed")

\* me.next.store(nullptr); unlock() returns.
McsPreLoadUnlink(t) ==
    /\ pc[t] = "mp_unlink"
    /\ node_next' = [node_next EXCEPT ![t] = Null]
    /\ pc' = [pc EXCEPT ![t] = "parallel"]
    /\ UNCHANGED <<harnessVars, recordVars, tasVars, ticketVars, tail_, node_locked, prev, succ, counterVars, order, logVars>>
    /\ Store(t, <<"next", t>>, "relaxed")

\* ------------------------------------- run_test and thread_func_lock


\* const int checkEvery = 64: the stop flag is looked at every checkEvery
\* iterations; the model keeps it a power of two, 2^StrideBits.
checkEvery == 2 ^ StrideBits

\* bit i of x
Bit(x, i) == (x \div (2 ^ i)) % 2

\* a & b on non-negative integers
BitAnd(a, b) ==
    CHOOSE r \in 0 .. a :
        \A i \in 0 .. (StrideBits + MaxCount + 2) : Bit(r, i) = Bit(a, i) * Bit(b, i)

\* A bug: stop is looked at in every iteration.
StopCheckDueAlways(t) == TRUE

\* the stop check with a mask one bit too wide
StopCheckDueLate(t) == BitAnd(localCount[t], 2 * checkEvery - 1) = 0

\* (localCount & (checkEvery - 1)) == 0
StopCheckDue(t) == BitAnd(localCount[t], checkEvery - 1) = 0

\* run_test: pthread_create of worker mainI + 1, which starts at the top of
\* thread_func_lock (affinity, localCount = 0).
MainCreate ==
    /\ mainPc = "create"
    /\ mainI < numThreads
    /\ pc' = [pc EXCEPT ![mainI + 1] = "ready"]
    /\ mainI' = mainI + 1
    /\ UNCHANGED <<sysVars, timingVars, workerVars, mainPc, total, stopVars, lockVars, workloadVars>>

\* run_test: the creation loop is over.
MainCreated ==
    /\ mainPc = "create"
    /\ mainI >= numThreads
    /\ mainPc' = "await_ready"
    /\ mainI' = 0
    /\ UNCHANGED <<sysVars, timingVars, workerVars, total, stopVars, pc, lockVars, workloadVars>>

\* ready.load() < numThreads_ as a signed comparison that a wrong bound could
\* let through one worker early
MainReadySeenEarly == ready >= numThreads - 1

\* the spin loop `while (ready.load(acquire) < numThreads_)` is left
MainReadySeen == ~(ready < numThreads)

\* run_test: main leaves the spin on ready.
MainAwaitReady ==
    /\ mainPc = "await_ready"
    /\ MainReadySeen
    /\ mainPc' = "set_start"
    /\ UNCHANGED <<sysVars, timingVars, workerVars, mainI, total, stopVars, pc, lockVars, workloadVars>>

\* run_test: timing.durationSeconds = ...; timing.start.store(true, release)
MainStart ==
    /\ mainPc = "set_start"
    /\ start' = TRUE
    /\ mainPc' = "sleep"
    /\ UNCHANGED <<sysVars, ready, stop, workerVars, mainI, total, stopVars, pc, lockVars, workloadVars>>

\* pc values of a worker that has run run_locked() of its current iteration
\* and not yet counted the iteration
AfterLockedPcs ==
    {"unlock", "mcs_cas", "mcs_await_succ", "mcs_pass", "mcs_unlink", "mp_unlink", "parallel"}

\* critical sections worker t has run so far
SectionsRun(t) == localCount[t] + (IF pc[t] \in AfterLockedPcs THEN 1 ELSE 0)

\* run_test: nanosleep returns; timing.stop.store(true, release).  What each
\* worker had counted and run at this moment is remembered.
MainStop ==
    /\ mainPc = "sleep"
    /\ stop' = TRUE
    /\ countAtStop' = [t \in Workers |-> localCount[t]]
    /\ csAtStop' = [t \in Workers |-> SectionsRun(t)]
    /\ mainPc' = "join"
    /\ mainI' = 0
    /\ UNCHANGED <<sysVars, ready, start, workerVars, total, pc, lockVars, workloadVars>>

\* run_test: pthread_join(threads[mainI]) returns once that worker returned.
\* A bug: run_test does not wait for the worker before it goes on.
JoinedAlways(t) == TRUE

\* pthread_join(threads[i], nullptr) returns: the worker has returned from
\* thread_func_lock.
Joined(t) == pc[t] = "finished"

MainJoin ==
    /\ mainPc = "join"
    /\ mainI < numThreads
    /\ Joined(mainI + 1)
    /\ mainI' = mainI + 1
    /\ UNCHANGED <<sysVars, timingVars, workerVars, mainPc, total, stopVars, pc, lockVars, workloadVars>>

RECURSIVE SumSlots(_, _)
\* results[0].count + ... + results[k - 1].count
SumSlots(slots, k) == IF k = 0 THEN 0 ELSE SumSlots(slots, k - 1) + slots[k]

\* a sum that misses the last slot
MainTotalShort == SumSlots(results, numThreads - 1)

\* for (i...) total += results[i].count
MainTotal == SumSlots(results, numThreads)

\* run_test: the join loop is over; the slots are summed and returned.
MainSum ==
    /\ mainPc = "join"
    /\ mainI >= numThreads
    /\ total' = MainTotal
    /\ mainPc' = "done"
    /\ UNCHANGED <<sysVars, timingVars, workerVars, mainI, stopVars, pc, lockVars, workloadVars>>

\* main(): the next sys.run_test() of the repeats loop, on the same lock.
\* timing, results and the threads are new locals of run_test, and the new
\* threads have new thread_local nodes (McsLock::node_for_this_thread); the
\* words of the lock keep what the last run left in them.
MainRepeat ==
    /\ mainPc = "done"
    /\ mainPc' = "create"
    /\ mainI' = 0
    /\ total' = 0
    /\ ready' = 0
    /\ start' = FALSE
    /\ stop' = FALSE
    /\ localCount' = [t \in Workers |-> 0]
    /\ results' = [t \in Workers |-> 0]
    /\ countAtStop' = [t \in Workers |-> 0]
    /\ csAtStop' = [t \in Workers |-> 0]
    /\ pc' = [t \in Workers |-> "unborn"]
    /\ node_next' = [t \in Workers |-> Null]
    /\ node_locked' = [t \in Workers |-> FALSE]
    /\ UNCHANGED <<sysVars, tasVars, ticketVars, tail_, prev, succ, memVars, workloadVars>>

\* thread_func_lock: ready.fetch_add(1, acq_rel)
WorkerReady(t) ==
    /\ pc[t] = "ready"
    /\ ready' = ready + 1
    /\ pc' = [pc EXCEPT ![t] = "wait_start"]
    /\ UNCHANGED <<sysVars, start, stop, workerVars, mainVars, stopVars, lockVars, workloadVars>>

\* thread_func_lock: while (!start.load(acquire)) {} is left.
WorkerAwaitStart(t) ==
    /\ pc[t] = "wait_start"
    /\ start
    /\ pc' = [pc EXCEPT ![t] = "top"]
    /\ UNCHANGED <<harnessVars, lockVars, workloadVars>>

\* thread_func_lock, top of the loop: every checkEvery iterations stop is
\* loaded and the loop left if it is set; otherwise run_parallel() runs and
\* lock() is called.
LoopTop(t) ==
    /\ pc[t] = "top"
    /\ IF StopCheckDue(t) /\ stop
         THEN pc' = [pc EXCEPT ![t] = "exit"]
         ELSE /\ stop \/ localCount[t] < MaxCount
              /\ pc' = [pc EXCEPT ![t] = "lock"]
    /\ UNCHANGED <<harnessVars, lockVars, workloadVars>>

\* thread_func_lock: unlock() has returned; ++localCount
CountIteration(t) ==
    /\ pc[t] = "parallel"
    /\ localCount' = [localCount EXCEPT ![t] = @ + 1]
    /\ pc' = [pc EXCEPT ![t] = "top"]
    /\ UNCHANGED <<sysVars, timingVars, results, mainVars, stopVars, lockVars, workloadVars>>

\* thread_func_lock: ctx->resultSlot->count = localCount; return
WorkerExit(t) ==
    /\ pc[t] = "exit"
    /\ results' = [results EXCEPT ![t] = localCount[t]]
    /\ pc' = [pc EXCEPT ![t] = "finished"]
    /\ UNCHANGED <<sysVars, timingVars, localCount, mainVars, stopVars, lockVars, workloadVars>>

\* --------------------------------------------------------------- main()

\* longest -T / -L list explored
MaxList == 2

\* The lists of at most MaxList items of S.
UpTo(S) == UNION {[1 .. k -> S] : k \in 0 .. MaxList}

\* The command lines explored.  "x" is text that is not a number; "nolock"
\* and "notask" are names that no lock and no task has.
Argvs ==
    [t : {"", "-1", "0", "2"},
     T : UpTo({"0", "2"}),
     B : {<<>>, <<"0">>, <<"2">>},
     L : UpTo({"tas", "nolock"}),
     l : {"", "mutex", "ticket_backoff"},
     d : {"", "-1", "0", "2", "x"},
     r : {"", "cpu_burn", "notask"},
     bad : BOOLEAN]

\* std::atoi / std::atof: the number the text starts with, 0 when it starts
\* with none.
Atoi(tok) ==
    CASE tok = "-1" -> -1
      [] tok = "2" -> 2
      [] OTHER -> 0

RECURSIVE Dedupe(_, _)
\* parse_bins: "dedupe preserve order"
Dedupe(q, out) ==
    IF q = <<>> THEN out
    ELSE Dedupe(Tail(q), IF \E i \in 1 .. Len(out) : out[i] = Head(q) THEN out ELSE Append(out, Head(q)))

\* parse_bins on a spec of single values: non-positive ones are skipped.
parse_bins(spec) == Dedupe(SelectSeq([i \in 1 .. Len(spec) |-> Atoi(spec[i])], LAMBDA x : x > 0), <<>>)

\* The names make_lock compares its argument with.
SupportedLocks == {"mutex", "tas", "spin", "tas_spin", "ticket", "mcs"}

\* A bug: make_lock returns a lock for every name.
make_lock_any(name) == TRUE

\* make_lock(name) returns a lock (not nullptr).
make_lock(name) == name \in SupportedLocks

\* make_task(name, ...) returns a task (not nullptr).
make_task(name) == name \in {"do_nothing", "cpu_burn", "compute"}

\* The Args parse_args leaves in `out` for command line a, its last three
\* statements included.
ParsedArgs(a) ==
    LET threads == IF a.t = "" THEN 0 ELSE Atoi(a.t)
        duration == IF a.d = "" THEN 2 ELSE Atoi(a.d)
    IN  [threads |-> IF a.t # "" /\ threads <= 0 THEN 1 ELSE threads,
         explicitThreads |-> a.t # "",
         threadsList |-> SelectSeq([i \in 1 .. Len(a.T) |-> Atoi(a.T[i])], LAMBDA x : x > 0),
         threadBins |-> a.B,
         locks |-> a.L,
         lockKind |-> IF a.l = "" THEN "mutex" ELSE a.l,
         runTask |-> IF a.r = "" THEN "do_nothing" ELSE a.r,
         duration |-> IF duration <= 0 THEN 1 ELSE duration]

\* main() returns code, after writing the lines of msg to std::cerr.
Exit(code, msg) ==
    /\ exitCode' = code
    /\ cerr' = cerr \o msg
    /\ cliPc' = "exited"

\* Args args; if (!parse_args(argc, argv, args)) return 1;
CliParseArgs ==
    /\ cliPc = "parse"
    /\ \E a \in Argvs :
        /\ argv' = a
        /\ IF a.bad
             THEN /\ Exit(1, << <<"Unknown or incomplete option">> >>)
                  /\ UNCHANGED args
             ELSE /\ args' = ParsedArgs(a)
                  /\ cliPc' = "lists"
                  /\ UNCHANGED <<exitCode, cerr>>
    /\ UNCHANGED <<threadCounts, lockKinds, li, ti, runs, testVars>>

\* The thread counts main() sweeps.
ThreadCounts ==
    IF args.explicitThreads THEN <<args.threads>>
    ELSE IF args.threadsList # <<>> THEN args.threadsList
    ELSE IF args.threadBins # <<>> THEN parse_bins(args.threadBins)
    ELSE <<1, 2, 4, 8, 16, 32>>

\* main(): threadCounts and lockKinds are built; an empty -B set returns 4.
\* Opening the CSV file may fail, main() then returns 5.
CliBuildLists ==
    /\ cliPc = "lists"
    /\ threadCounts' = ThreadCounts
    /\ IF ThreadCounts = <<>>
         THEN /\ Exit(4, << <<"Invalid -B bins spec results in empty thread set">> >>)
              /\ UNCHANGED <<lockKinds, li, ti>>
         ELSE /\ lockKinds' = IF args.locks = <<>> THEN <<args.lockKind>> ELSE args.locks
              /\ \/ /\ cliPc' = "loop"
                    /\ li' = 1
                    /\ ti' = 1
                    /\ UNCHANGED <<exitCode, cerr>>
                 \/ /\ Exit(5, << <<"Failed to open CSV file">> >>)
                    /\ UNCHANGED <<li, ti>>
    /\ UNCHANGED <<argv, args, runs, testVars>>

\* `lk` and `tc` of the loops of main().
lk == lockKinds[li]
tc == threadCounts[ti]

\* auto lock = make_lock(lk); if (!lock) { cerr << ...; return 2; }
CliRejectLock ==
    /\ cliPc = "loop"
    /\ li <= Len(lockKinds)
    /\ ~make_lock(lk)
    /\ Exit(2, << <<"Unknown lock kind: ", lk>> >>)
    /\ UNCHANGED <<argv, args, threadCounts, lockKinds, li, ti, runs, testVars>>

\* auto task = make_task(...); if (!task) { cerr << ...; return 3; }
CliRejectTask ==
    /\ cliPc = "loop"
    /\ li <= Len(lockKinds)
    /\ make_lock(lk)
    /\ ~make_task(args.runTask)
    /\ Exit(3, << <<"Unknown runtask: ", args.runTask>> >>)
    /\ UNCHANGED <<argv, args, threadCounts, lockKinds, li, ti, runs, testVars>>

\* LockTestSys sys(lock, task, tc, args.duration) and the calls of
\* sys.run_test() (args.repeats of them, at least one); then the next tc, or
\* the next lk.
CliRunTests ==
    /\ cliPc = "loop"
    /\ li <= Len(lockKinds)
    /\ make_lock(lk)
    /\ make_task(args.runTask)
    /\ runs' = runs \cup {<<lk, tc, args.duration>>}
    /\ IF ti < Len(threadCounts)
         THEN /\ ti' = ti + 1
              /\ UNCHANGED li
         ELSE /\ ti' = 1
              /\ li' = li + 1
    /\ UNCHANGED <<argv, args, threadCounts, lockKinds, cliPc, exitCode, cerr, testVars>>

\* The loops are over: return 0.
CliReturn ==
    /\ cliPc = "loop"
    /\ li > Len(lockKinds)
    /\ Exit(0, <<>>)
    /\ UNCHANGED <<argv, args, threadCounts, lockKinds, li, ti, runs, testVars>>

\* ------------------------------------------------- specification: TAS

TasKinds == {"tas", "tas_preload"}

InitTas == InitWith(TasKinds, {"counter"}, 1 .. MaxThreads) /\ window = 0

NextTas ==
    \/ \E t \in Workers : RunParallel(t)
    \/ \E t \in Workers : RunLockedRead(t)
    \/ \E t \in Workers : RunLockedWrite(t)
    \/ \E t \in Workers : TasLock(t)
    \/ \E t \in Workers : TasUnlock(t)
    \/ \E t \in Workers : TasPreLoadObserve(t)
    \/ \E t \in Workers : TasPreLoadCas(t)
    \/ \E t \in Workers : TasPreLoadCasFail(t)
    \/ \E t \in Workers : TasPreLoadUnlock(t)

SpecTas == InitTas /\ [][NextTas]_vars

\* --------------------------------- specification: queueing ticket locks

InitTicket == InitWith(QueueingTicketKinds, {"do_nothing"}, 1 .. MaxThreads) /\ window = 0

NextTicket ==
    \/ \E t \in Workers : RunParallel(t)
    \/ \E t \in Workers : RunLocked(t)
    \/ \E t \in Workers : TicketFetchAdd(t)
    \/ \E t \in Workers : TicketLockSpin(t)
    \/ \E t \in Workers : TicketBackOffSpin(t)
    \/ \E t \in Workers : TicketAdaptiveSpin(t)
    \/ \E t \in Workers : CpuRelax(t)
    \/ \E t \in Workers : TicketUnlock(t)

SpecTicket == InitTicket /\ [][NextTicket]_vars

\* ------------------------------------------------- specification: MCS

InitMcs == InitWith({"mcs"}, {"do_nothing"}, 1 .. MaxThreads) /\ window = 0

NextMcs ==
    \/ \E t \in Workers : RunParallel(t)
    \/ \E t \in Workers : RunLocked(t)
    \/ \E t \in Workers : McsInitNext(t)
    \/ \E t \in Workers : McsInitLocked(t)
    \/ \E t \in Workers : McsExchange(t)
    \/ \E t \in Workers : McsLink(t)
    \/ \E t \in Workers : McsWait(t)
    \/ \E t \in Workers : McsDirect(t)
    \/ \E t \in Workers : McsLoadSucc(t)
    \/ \E t \in Workers : McsReleaseCas(t)
    \/ \E t \in Workers : McsAwaitSucc(t)
    \/ \E t \in Workers : McsPass(t)
    \/ \E t \in Workers : McsUnlink(t)

SpecMcs == InitMcs /\ [][NextMcs]_vars

\* ------------------------------------ specification: pre-load variants

InitPreLoad == InitWith({"ticket_preload", "mcs_preload"}, {"do_nothing"}, 1 .. MaxThreads) /\ window = 0

NextPreLoad ==
    \/ \E t \in Workers : RunParallel(t)
    \/ \E t \in Workers : RunLocked(t)
    \/ \E t \in Workers : TicketPreLoadS(t)
    \/ \E t \in Workers : TicketPreLoadN(t)
    \/ \E t \in Workers : TicketPreLoadCas(t)
    \/ \E t \in Workers : TicketPreLoadCasFail(t)
    \/ \E t \in Workers : TicketPreLoadWait(t)
    \/ \E t \in Workers : TicketUnlock(t)
    \/ \E t \in Workers : McsPreLoadInitNext(t)
    \/ \E t \in Workers : McsPreLoadInitLocked(t)
    \/ \E t \in Workers : McsPreLoadObserve(t)
    \/ \E t \in Workers : McsPreLoadCas(t)
    \/ \E t \in Workers : McsPreLoadCasFail(t)
    \/ \E t \in Workers : McsPreLoadClearLocked(t)
    \/ \E t \in Workers : McsPreLoadReleaseCas(t)
    \/ \E t \in Workers : McsPreLoadUnlink(t)

SpecPreLoad == InitPreLoad /\ [][NextPreLoad]_vars

\* ------------------- specification: TicketLock under the logging workload

\* N workers, windows of N x N acquisitions.
InitWindowSquare ==
    /\ InitWith({"ticket"}, {"log"}, 1 .. MaxThreads)
    /\ window = numThreads * numThreads

\* Scenario S2: 4 workers, windows of 4 acquisitions.
InitWindowFour ==
    /\ InitWith({"ticket"}, {"log"}, {4})
    /\ window = 4

NextWindow ==
    \/ \E t \in Workers : RunParallel(t)
    \/ \E t \in Workers : RunLockedLog(t)
    \/ \E t \in Workers : TicketFetchAdd(t)
    \/ \E t \in Workers : TicketLockSpin(t)
    \/ \E t \in Workers : TicketUnlock(t)

SpecWindowSquare == InitWindowSquare /\ [][NextWindow]_vars

SpecWindowFour == InitWindowFour /\ [][NextWindow]_vars

\* ------------------------- specification: every lock, fair scheduling

AllKinds == TasKinds \cup TicketKinds \cup {"mcs", "mcs_preload"}

InitAll == InitWith(AllKinds, {"do_nothing"}, 1 .. MaxThreads) /\ window = 0

NextAll ==
    \/ \E t \in Workers : RunParallel(t)
    \/ \E t \in Workers : RunLocked(t)
    \/ \E t \in Workers : TasLock(t)
    \/ \E t \in Workers : TasUnlock(t)
    \/ \E t \in Workers : TasPreLoadObserve(t)
    \/ \E t \in Workers : TasPreLoadCas(t)
    \/ \E t \in Workers : TasPreLoadCasFail(t)
    \/ \E t \in Workers : TasPreLoadUnlock(t)
    \/ \E t \in Workers : TicketFetchAdd(t)
    \/ \E t \in Workers : TicketLockSpin(t)
    \/ \E t \in Workers : TicketBackOffSpin(t)
    \/ \E t \in Workers : TicketAdaptiveSpin(t)
    \/ \E t \in Workers : CpuRelax(t)
    \/ \E t \in Workers : TicketUnlock(t)
    \/ \E t \in Workers : TicketPreLoadS(t)
    \/ \E t \in Workers : TicketPreLoadN(t)
    \/ \E t \in Workers : TicketPreLoadCas(t)
    \/ \E t \in Workers : TicketPreLoadCasFail(t)
    \/ \E t \in Workers : TicketPreLoadWait(t)
    \/ \E t \in Workers : McsInitNext(t)
    \/ \E t \in Workers : McsInitLocked(t)
    \/ \E t \in Workers : McsExchange(t)
    \/ \E t \in Workers : McsLink(t)
    \/ \E t \in Workers : McsWait(t)
    \/ \E t \in Workers : McsDirect(t)
    \/ \E t \in Workers : McsLoadSucc(t)
    \/ \E t \in Workers : McsReleaseCas(t)
    \/ \E t \in Workers : McsAwaitSucc(t)
    \/ \E t \in Workers : McsPass(t)
    \/ \E t \in Workers : McsUnlink(t)
    \/ \E t \in Workers : McsPreLoadInitNext(t)
    \/ \E t \in Workers : McsPreLoadInitLocked(t)
    \/ \E t \in Workers : McsPreLoadObserve(t)
    \/ \E t \in Workers : McsPreLoadCas(t)
    \/ \E t \in Workers : McsPreLoadCasFail(t)
    \/ \E t \in Workers : McsPreLoadClearLocked(t)
    \/ \E t \in Workers : McsPreLoadReleaseCas(t)
    \/ \E t \in Workers : McsPreLoadUnlink(t)

\* One step of worker t, whatever the lock.
WorkerStep(t) ==
    /\ t \in Workers
    /\ \/ RunParallel(t)
       \/ RunLocked(t)
       \/ TasLock(t)
       \/ TasUnlock(t)
       \/ TasPreLoadObserve(t)
       \/ TasPreLoadCas(t)
       \/ TasPreLoadCasFail(t)
       \/ TasPreLoadUnlock(t)
       \/ TicketFetchAdd(t)
       \/ TicketLockSpin(t)
       \/ TicketBackOffSpin(t)
       \/ TicketAdaptiveSpin(t)
       \/ CpuRelax(t)
       \/ TicketUnlock(t)
       \/ TicketPreLoadS(t)
       \/ TicketPreLoadN(t)
       \/ TicketPreLoadCas(t)
       \/ TicketPreLoadCasFail(t)
       \/ TicketPreLoadWait(t)
       \/ McsInitNext(t)
       \/ McsInitLocked(t)
       \/ McsExchange(t)
       \/ McsLink(t)
       \/ McsWait(t)
       \/ McsDirect(t)
       \/ McsLoadSucc(t)
       \/ McsReleaseCas(t)
       \/ McsAwaitSucc(t)
       \/ McsPass(t)
       \/ McsUnlink(t)
       \/ McsPreLoadInitNext(t)
       \/ McsPreLoadInitLocked(t)
       \/ McsPreLoadObserve(t)
       \/ McsPreLoadCas(t)
       \/ McsPreLoadCasFail(t)
       \/ McsPreLoadClearLocked(t)
       \/ McsPreLoadReleaseCas(t)
       \/ McsPreLoadUnlink(t)

\* A compare_exchange_weak that finds the expected value succeeds.
WeakCasSucceeds ==
    \E t \in Workers : TasPreLoadCas(t) \/ TicketPreLoadCas(t) \/ McsPreLoadCas(t)

\* Every worker is a thread of its own that keeps running (weak fairness of
\* each worker's steps), and a compare_exchange_weak does not fail spuriously
\* for ever: of the weak CASes that repeatedly find the expected value, one
\* eventually succeeds.
Fairness ==
    /\ \A t \in 1 .. MaxThreads : WF_vars(WorkerStep(t))
    /\ SF_vars(WeakCasSucceeds)

SpecFair == InitAll /\ [][NextAll]_vars /\ Fairness

\* ------------------- specification: queueing locks, fair scheduling

InitQueue == InitWith(QueueingTicketKinds \cup {"mcs"}, {"do_nothing"}, 1 .. MaxThreads) /\ window = 0

NextQueue ==
    \/ NextTicket
    \/ NextMcs

SpecQueueFair == InitQueue /\ [][NextQueue]_vars /\ Fairness

\* ------------------- specification: run_test from start to return

\* run_test is entered: no worker exists yet.
InitHarnessWith(kinds, counts) ==
    /\ InitShared(kinds, {"do_nothing"}, counts)
    /\ cliPc = "run_test"
    /\ pc = [t \in 1 .. numThreads |-> "unborn"]
    /\ ready = 0
    /\ start = FALSE
    /\ mainPc = "create"
    /\ mainI = 0
    /\ window = 0

InitHarness == InitHarnessWith(AllKinds, 1 .. MaxThreads)

NextHarness ==
    \/ MainCreate
    \/ MainCreated
    \/ MainAwaitReady
    \/ MainStart
    \/ MainStop
    \/ MainJoin
    \/ MainSum
    \/ \E t \in Workers : WorkerReady(t)
    \/ \E t \in Workers : WorkerAwaitStart(t)
    \/ \E t \in Workers : LoopTop(t)
    \/ \E t \in Workers : CountIteration(t)
    \/ \E t \in Workers : WorkerExit(t)
    \/ \E t \in Workers : RunLocked(t)
    \/ \E t \in Workers : TasLock(t)
    \/ \E t \in Workers : TasUnlock(t)
    \/ \E t \in Workers : TasPreLoadObserve(t)
    \/ \E t \in Workers : TasPreLoadCas(t)
    \/ \E t \in Workers : TasPreLoadCasFail(t)
    \/ \E t \in Workers : TasPreLoadUnlock(t)
    \/ \E t \in Workers : TicketFetchAdd(t)
    \/ \E t \in Workers : TicketLockSpin(t)
    \/ \E t \in Workers : TicketBackOffSpin(t)
    \/ \E t \in Workers : TicketAdaptiveSpin(t)
    \/ \E t \in Workers : CpuRelax(t)
    \/ \E t \in Workers : TicketUnlock(t)
    \/ \E t \in Workers : TicketPreLoadS(t)
    \/ \E t \in Workers : TicketPreLoadN(t)
    \/ \E t \in Workers : TicketPreLoadCas(t)
    \/ \E t \in Workers : TicketPreLoadCasFail(t)
    \/ \E t \in Workers : TicketPreLoadWait(t)
    \/ \E t \in Workers : McsInitNext(t)
    \/ \E t \in Workers : McsInitLocked(t)
    \/ \E t \in Workers : McsExchange(t)
    \/ \E t \in Workers : McsLink(t)
    \/ \E t \in Workers : McsWait(t)
    \/ \E t \in Workers : McsDirect(t)
    \/ \E t \in Workers : McsLoadSucc(t)
    \/ \E t \in Workers : McsReleaseCas(t)
    \/ \E t \in Workers : McsAwaitSucc(t)
    \/ \E t \in Workers : McsPass(t)
    \/ \E t \in Workers : McsUnlink(t)
    \/ \E t \in Workers : McsPreLoadInitNext(t)
    \/ \E t \in Workers : McsPreLoadInitLocked(t)
    \/ \E t \in Workers : McsPreLoadObserve(t)
    \/ \E t \in Workers : McsPreLoadCas(t)
    \/ \E t \in Workers : McsPreLoadCasFail(t)
    \/ \E t \in Workers : McsPreLoadClearLocked(t)
    \/ \E t \in Workers : McsPreLoadReleaseCas(t)
    \/ \E t \in Workers : McsPreLoadUnlink(t)

SpecHarness == InitHarness /\ [][NextHarness]_vars

\* One step of worker t inside thread_func_lock.
HarnessWorkerStep(t) ==
    /\ t \in Workers
    /\ \/ WorkerReady(t)
       \/ WorkerAwaitStart(t)
       \/ LoopTop(t)
       \/ CountIteration(t)
       \/ WorkerExit(t)
       \/ RunLocked(t)
       \/ TasLock(t)
       \/ TasUnlock(t)
       \/ TasPreLoadObserve(t)
       \/ TasPreLoadCas(t)
       \/ TasPreLoadCasFail(t)
       \/ TasPreLoadUnlock(t)
       \/ TicketFetchAdd(t)
       \/ TicketLockSpin(t)
       \/ TicketBackOffSpin(t)
       \/ TicketAdaptiveSpin(t)
       \/ CpuRelax(t)
       \/ TicketUnlock(t)
       \/ TicketPreLoadS(t)
       \/ TicketPreLoadN(t)
       \/ TicketPreLoadCas(t)
       \/ TicketPreLoadCasFail(t)
       \/ TicketPreLoadWait(t)
       \/ McsInitNext(t)
       \/ McsInitLocked(t)
       \/ McsExchange(t)
       \/ McsLink(t)
       \/ McsWait(t)
       \/ McsDirect(t)
       \/ McsLoadSucc(t)
       \/ McsReleaseCas(t)
       \/ McsAwaitSucc(t)
       \/ McsPass(t)
       \/ McsUnlink(t)
       \/ McsPreLoadInitNext(t)
       \/ McsPreLoadInitLocked(t)
       \/ McsPreLoadObserve(t)
       \/ McsPreLoadCas(t)
       \/ McsPreLoadCasFail(t)
       \/ McsPreLoadClearLocked(t)
       \/ McsPreLoadReleaseCas(t)
       \/ McsPreLoadUnlink(t)

\* One step of the main thread inside run_test.
MainStep ==
    \/ MainCreate
    \/ MainCreated
    \/ MainAwaitReady
    \/ MainStart
    \/ MainStop
    \/ MainJoin
    \/ MainSum

\* Main and every worker are threads that keep running, and a
\* compare_exchange_weak does not fail spuriously for ever.
HarnessFairness ==
    /\ WF_vars(MainStep)
    /\ \A t \in 1 .. MaxThreads : WF_vars(HarnessWorkerStep(t))
    /\ SF_vars(WeakCasSucceeds)

InitHarnessFair == InitHarnessWith(AllKinds, 1 .. FairThreads)

SpecHarnessFair == InitHarnessFair /\ [][NextHarness]_vars /\ HarnessFairness

\* ------------------- specification: run_test called again and again

NextRepeat ==
    \/ NextHarness
    \/ MainRepeat

SpecRepeat == InitHarnessFair /\ [][NextRepeat]_vars

\* ------------------------------------ specification: pause schedules

InitPause ==
    InitWith({"ticket_backoff", "ticket_backoff_prefetch", "ticket_adaptive"}, {"do_nothing"}, {1})
        /\ window = 0

NextPause ==
    \/ BackOffRound
    \/ AdaptiveRound

SpecPause == InitPause /\ [][NextPause]_vars

\* ----------------------------------------------- specification: main()

\* main() is entered.
InitCli ==
    /\ InitShared({"tas"}, {"do_nothing"}, {1})
    /\ cliPc = "parse"
    /\ pc = [t \in 1 .. numThreads |-> "unborn"]
    /\ ready = 0
    /\ start = FALSE
    /\ mainPc = "create"
    /\ mainI = 0
    /\ window = 0

NextCli ==
    \/ CliParseArgs
    \/ CliBuildLists
    \/ CliRejectLock
    \/ CliRejectTask
    \/ CliRunTests
    \/ CliReturn

SpecCli == InitCli /\ [][NextCli]_vars

\* ------------------- specification: every lock guarding a two-word record

InitPublish == InitWith(AllKinds, {"record"}, 1 .. MaxThreads) /\ window = 0

NextPublish ==
    \/ \E t \in Workers : RunParallel(t)
    \/ \E t \in Workers : RecordRead1(t)
    \/ \E t \in Workers : RecordRead2(t)
    \/ \E t \in Workers : RecordWrite1(t)
    \/ \E t \in Workers : RecordWrite2(t)
    \/ \E t \in Workers : TasLock(t)
    \/ \E t \in Workers : TasUnlock(t)
    \/ \E t \in Workers : TasPreLoadObserve(t)
    \/ \E t \in Workers : TasPreLoadCas(t)
    \/ \E t \in Workers : TasPreLoadCasFail(t)
    \/ \E t \in Workers : TasPreLoadUnlock(t)
    \/ \E t \in Workers : TicketFetchAdd(t)
    \/ \E t \in Workers : TicketLockSpin(t)
    \/ \E t \in Workers : TicketBackOffSpin(t)
    \/ \E t \in Workers : TicketAdaptiveSpin(t)
    \/ \E t \in Workers : CpuRelax(t)
    \/ \E t \in Workers : TicketUnlock(t)
    \/ \E t \in Workers : TicketPreLoadS(t)
    \/ \E t \in Workers : TicketPreLoadN(t)
    \/ \E t \in Workers : TicketPreLoadCas(t)
    \/ \E t \in Workers : TicketPreLoadCasFail(t)
    \/ \E t \in Workers : TicketPreLoadWait(t)
    \/ \E t \in Workers : McsInitNext(t)
    \/ \E t \in Workers : McsInitLocked(t)
    \/ \E t \in Workers : McsExchange(t)
    \/ \E t \in Workers : McsLink(t)
    \/ \E t \in Workers : McsWait(t)
    \/ \E t \in Workers : McsDirect(t)
    \/ \E t \in Workers : McsLoadSucc(t)
    \/ \E t \in Workers : McsReleaseCas(t)
    \/ \E t \in Workers : McsAwaitSucc(t)
    \/ \E t \in Workers : McsPass(t)
    \/ \E t \in Workers : McsUnlink(t)
    \/ \E t \in Workers : McsPreLoadInitNext(t)
    \/ \E t \in Workers : McsPreLoadInitLocked(t)
    \/ \E t \in Workers : McsPreLoadObserve(t)
    \/ \E t \in Workers : McsPreLoadCas(t)
    \/ \E t \in Workers : McsPreLoadCasFail(t)
    \/ \E t \in Workers : McsPreLoadClearLocked(t)
    \/ \E t \in Workers : McsPreLoadReleaseCas(t)
    \/ \E t \in Workers : McsPreLoadUnlink(t)

SpecPublish == InitPublish /\ [][NextPublish]_vars

\* ------------------------------------------------------------- claims

\* pc values of a worker between a returned lock() and the call of its
\* matching unlock()
CriticalPcs == {"locked", "locked_write", "rec_read2", "rec_write1", "rec_write2", "unlock"}

InCritical(t) == pc[t] \in CriticalPcs

AtMostOneInCritical == \A t, u \in Workers : (InCritical(t) /\ InCritical(u)) => t = u

\* C1: with TasSpinlock and TasSpinlockPreLoad at most one worker is between a
\* returned lock() and its matching unlock(), and the plain counter incremented
\* in each critical section equals the number of completed critical sections.
C1_TasMutualExclusion ==
    /\ AtMostOneInCritical
    /\ counter = completed

\* C1 witness: two workers contend, one of them is inside its critical section
\* having read the counter, and earlier critical sections have completed.
C1_Witness ==
    /\ \E t, u \in Workers :
        /\ t # u
        /\ pc[t] = "locked_write"
        /\ pc[u] \in {"lock", "tas_cas"}
    /\ completed = 2

\* C2: with the queueing ticket locks at most one worker is between a returned
\* lock() and its matching unlock(): while a worker is there no waiting worker
\* holds the ticket being served, and no two waiting workers hold the same
\* ticket.
C2_TicketMutualExclusion ==
    /\ AtMostOneInCritical
    /\ \A t \in Workers : \A u \in TicketHolders : InCritical(t) => ~TicketTurn(u)
    /\ \A u, v \in TicketHolders : my[u] = my[v] => u = v

\* C2 witness: a worker is in its critical section, two others wait with
\* tickets, and the counters have advanced.
C2_Witness ==
    /\ \E t \in Workers : pc[t] = "locked"
    /\ Cardinality(TicketHolders) >= 2
    /\ serving_ >= 2

\* C3: with McsLock at most one worker is between a returned lock() and its
\* matching unlock().
C3_McsMutualExclusion == AtMostOneInCritical

\* C3 witness: unlock() lost the tail_ CAS to a successor that has exchanged
\* tail_ but not yet linked prev->next, while a third worker queues behind.
C3_Witness ==
    \E t, u, v \in Workers :
        /\ pc[t] = "mcs_await_succ"
        /\ pc[u] = "mcs_link"
        /\ prev[u] = t
        /\ pc[v] = "mcs_wait"
        /\ prev[v] = u

\* C4: with TicketLockPreLoad and McsLockPreLoad at most one worker is between
\* a returned lock() and its matching unlock().
C4_PreLoadMutualExclusion == AtMostOneInCritical

\* C4 witness: a worker stands before its CAS with an observation that has
\* gone stale, while another worker is in its critical section.
C4_Witness ==
    \E t, u \in Workers :
        /\ InCritical(u)
        /\ \/ pc[t] = "tp_cas" /\ next_ # n[t]
           \/ pc[t] = "mp_cas" /\ tail_ # Null

\* pc values of a worker inside lock()
TryingPcs ==
    {"lock", "tas_cas", "ticket_spin", "ticket_relax", "tp_load_n", "tp_cas",
     "tp_wait", "mcs_set_locked", "mcs_exchange", "mcs_link", "mcs_wait",
     "mcs_direct", "mp_set_locked", "mp_observe", "mp_cas", "mp_clear_locked"}

\* pc values of a worker that has called unlock() and not yet returned
UnlockingPcs == {"mcs_cas", "mcs_await_succ", "mcs_pass", "mcs_unlink", "mp_unlink"}

Unheld == \A t \in Workers : ~InCritical(t)

Trying == \E t \in Workers : pc[t] \in TryingPcs

\* C5: for every lock variant, under fair scheduling: whenever no worker is
\* in its critical section and some worker is executing lock(), some worker
\* eventually returns from lock(); and a worker inside unlock() eventually
\* returns from it.
C5_Progress ==
    /\ (Unheld /\ Trying) ~> (\E t \in Workers : pc[t] = "locked")
    /\ \A t \in 1 .. MaxThreads :
          (t \in Workers /\ pc[t] \in UnlockingPcs) ~> (t \in Workers /\ pc[t] = "parallel")

\* C5 witness: the lock has just been released by a worker that lost the
\* tail_ CAS, and the worker it passed the lock to is still inside lock().
C5_Witness ==
    /\ Unheld
    /\ \E t, u \in Workers :
        /\ pc[t] = "mcs_unlink"
        /\ pc[u] = "mcs_wait"
        /\ ~node_locked[u]

\* C6: TicketLock (and its back-off variants) grants the lock in the order of
\* the fetch_add on next_: a worker returns from lock() only when it is the
\* earliest worker that has taken a ticket and not yet returned.
C6_TicketFifo ==
    [][\A t \in Workers :
          (pc[t] = "ticket_spin" /\ pc'[t] = "locked") => Head(order) = t]_vars

\* C6 witness: a worker holds the lock, two others are queued behind it, and
\* the lock has been handed over before.
C6_Witness ==
    /\ \E t \in Workers : InCritical(t)
    /\ Len(order) >= 2
    /\ serving_ >= 1

\* C7 as stated: every window of N x N consecutive acquisitions of a
\* TicketLock contains every worker id.
C7_AsStated == winLen = window => winSeen = Workers

\* C7 as amended: every window of N x N consecutive acquisitions contains
\* every worker that held a ticket when the window began.
C7_WindowSquare == winLen = window => winMust \subseteq winSeen

\* C7 witness: a complete window of N x N acquisitions, begun while every
\* one of several workers held a ticket.
C7_Witness ==
    /\ numThreads >= 2
    /\ winLen = window
    /\ window = numThreads * numThreads
    /\ winMust = Workers

\* C8 as stated: with 4 workers every window of 4 consecutive acquisitions
\* contains each of the 4 worker ids.
C8_AsStated == (numThreads = 4 /\ winLen = 4) => winSeen = 1 .. 4

\* C8 as amended: with 4 workers every window of 4 consecutive acquisitions
\* contains each worker that held a ticket when the window began.
C8_WindowFour == (numThreads = 4 /\ winLen = 4) => winMust \subseteq winSeen

\* C8 witness: a complete window of 4 acquisitions by 4 workers, begun while
\* all four held a ticket.
C8_Witness ==
    /\ numThreads = 4
    /\ winLen = 4
    /\ winMust = 1 .. 4

\* C9: McsLock passes the lock in the order of the tail_ exchanges: a worker
\* returns from lock() only when it is the earliest worker that has exchanged
\* tail_ and not yet returned.
C9_McsFifo ==
    [][\A t \in Workers :
          (pc[t] \in {"mcs_wait", "mcs_direct"} /\ pc'[t] = "locked")
              => Head(order) = t]_vars

\* C9 witness: the later of two queued workers has linked itself behind the
\* earlier one, which has not linked itself yet.
C9_Witness ==
    \E t, u \in Workers :
        /\ pc[t] = "mcs_link"
        /\ pc[u] = "mcs_wait"
        /\ prev[u] = t
        /\ node_next[t] = u
        /\ order = <<t, u>>

\* C10: in McsLock a worker that has to wait (prev != nullptr) enqueues with
\* its locked flag set; until it returns from lock() the flag changes only
\* from true to false, by the store of unlock() run by the worker its
\* exchange returned; and it returns only once the flag is clear.
C10_McsLocalSpin ==
    [][\A t \in Workers :
          /\ pc[t] = "mcs_link" => node_locked[t]
          /\ (pc[t] \in {"mcs_link", "mcs_wait"} /\ node_locked'[t] # node_locked[t])
                => /\ node_locked[t]
                   /\ ~node_locked'[t]
                   /\ pc[prev[t]] = "mcs_pass"
                   /\ pc'[prev[t]] = "mcs_unlink"
          /\ (pc[t] = "mcs_wait" /\ pc'[t] = "locked") => ~node_locked[t]]_vars

\* C10 witness: a waiting worker's flag has been cleared by its predecessor,
\* which is finishing unlock(), while a third worker still waits.
C10_Witness ==
    \E t, u, v \in Workers :
        /\ pc[t] = "mcs_unlink"
        /\ pc[u] = "mcs_wait"
        /\ prev[u] = t
        /\ ~node_locked[u]
        /\ pc[v] = "mcs_wait"
        /\ node_locked[v]

\* pc values of a worker that has not yet been released by start
BeforeStartPcs == {"unborn", "ready", "wait_start"}

\* C11: coordinated start.  A worker is past the start barrier (running
\* run_parallel(), lock(), counting, or exiting) only once main has set
\* start; start is set only when ready equals the number of workers; ready
\* counts exactly the workers that have done their fetch_add, so never
\* exceeds that number; and stop is set only after start.
C11_CoordinatedStart ==
    /\ \A t \in Workers : (pc[t] \notin BeforeStartPcs \/ localCount[t] > 0) => start
    /\ start => ready = numThreads
    /\ ready = Cardinality({t \in Workers : pc[t] \notin {"unborn", "ready"}})
    /\ ready <= numThreads
    /\ stop => start

\* C11 witness: the window is open, one worker is still leaving the start
\* barrier while another is already inside its critical section.
C11_Witness ==
    /\ start
    /\ ~stop
    /\ \E t, u \in Workers : pc[t] = "wait_start" /\ pc[u] = "locked"

\* C12: every experiment terminates.  Once main has set stop, every worker
\* leaves its loop and writes its result, the joins return and run_test
\* returns, whatever the lock and wherever the workers were when stop was
\* raised.
C12_Terminates ==
    stop ~> (mainPc = "done" /\ \A t \in Workers : pc[t] = "finished")

\* C12 witness: stop is raised, one worker has already exited, and its peer
\* is still inside lock().
C12_Witness ==
    /\ stop
    /\ \E t, u \in Workers :
        /\ pc[u] = "finished"
        /\ pc[t] \in {"tas_cas", "ticket_spin", "ticket_relax", "tp_wait", "mcs_exchange", "mp_cas"}

\* pc values of a worker that has left the loop
ExitedPcs == {"exit", "finished"}

\* No worker holds or waits for the lock under test.
LockIdle ==
    /\ ~flag_
    /\ state_ = 0
    /\ next_ = serving_
    /\ tail_ = Null
    /\ order = <<>>

\* Worker t neither holds the lock nor is queued for it, and no other
\* worker is about to write to its queue node or waits to be released by it.
HoldsNothing(t) ==
    /\ tail_ # t
    /\ \A u \in Workers : pc[u] = "mcs_pass" => succ[u] # t
    /\ \A u \in Workers :
          (pc[u] = "mcs_link" \/ (pc[u] = "mcs_wait" /\ node_locked[u])) => prev[u] # t
    /\ \A i \in 1 .. Len(order) : order[i] # t
    /\ my[t] = 0 /\ n[t] = 0

\* C13: the overshoot is bounded by the check stride.  After main has set
\* stop each worker counts at most checkEvery further iterations, and a
\* worker that has left the loop neither holds the lock nor waits for it:
\* once all have left, the lock is idle.
C13_OvershootStride ==
    /\ \A t \in Workers : stop => localCount[t] - countAtStop[t] <= checkEvery
    /\ \A t \in Workers : pc[t] \in ExitedPcs => HoldsNothing(t)
    /\ (\A t \in Workers : pc[t] \in ExitedPcs) => LockIdle

\* C13 witness: a worker has exited after counting exactly checkEvery
\* iterations since stop was raised, while a peer is still in the loop.
C13_Witness ==
    \E t, u \in Workers :
        /\ pc[t] = "finished"
        /\ results[t] - countAtStop[t] = checkEvery
        /\ pc[u] \in {"locked", "unlock"}

\* C14 as stated: a worker runs at most mask = checkEvery - 1 critical
\* sections after stop has been set.
C14_AsStated ==
    \A t \in Workers : stop => SectionsRun(t) - csAtStop[t] <= checkEvery - 1

\* C14 as amended: a worker runs at most mask + 1 = checkEvery critical
\* sections after stop has been set.
C14_OvershootSections ==
    \A t \in Workers : stop => SectionsRun(t) - csAtStop[t] <= checkEvery

\* C14 witness: a worker has left the loop having run exactly checkEvery
\* critical sections since stop was raised.
C14_Witness ==
    \E t \in Workers :
        /\ stop
        /\ pc[t] = "exit"
        /\ SectionsRun(t) - csAtStop[t] = checkEvery

C16_ReleasePublishes ==
    \A t \in Workers :
        /\ pc[t] = "rec_read2" => seen1[t] = word1
        /\ pc[t] = "rec_write1" =>
               /\ seen1[t] = seen2[t]
               /\ seen1[t] = word1
               /\ word1 = word2

\* A worker has read the record's last version inside its critical section
\* while another worker, still trying to acquire, has a view in which the
\* record was never written.
C16_Witness ==
    \E t \in Workers, u \in Workers :
        /\ pc[t] = "rec_write1"
        /\ seen1[t] = MaxVersion
        /\ seen2[t] = MaxVersion
        /\ pc[u] \in TryingPcs
        /\ view[u] = 0

\* C17: no experiment is ever run for a lock name make_lock does not
\* recognise; when main() comes to such a name it does nothing but write
\* "Unknown lock kind: " and the name to std::cerr and return 2; and main()
\* returns 0 only when it recognised every name it was given.
C17_UnknownLockRejected ==
    /\ [](\A r \in runs : r[1] \in SupportedLocks)
    /\ [](exitCode = 2 => /\ lk \notin SupportedLocks
                          /\ cerr = << <<"Unknown lock kind: ", lk>> >>)
    /\ [](exitCode = 0 => \A i \in 1 .. Len(lockKinds) : lockKinds[i] \in SupportedLocks)
    /\ [][(cliPc = "loop" /\ li <= Len(lockKinds) /\ lk \notin SupportedLocks)
              => (exitCode' = 2 /\ runs' = runs)]_vars

\* main() ran the experiments of a lock it recognised, then rejected the next
\* name of the -L list.
C17_Witness ==
    /\ exitCode = 2
    /\ lk = "nolock"
    /\ \E r \in runs : r[1] = "tas"

\* The command line asks for a worker count that is zero or negative: with
\* -t, or as an entry of the -T list main() sweeps.
InvalidCountRequested ==
    \/ argv.t \in {"-1", "0"}
    \/ argv.t = "" /\ \E i \in 1 .. Len(argv.T) : argv.T[i] = "0"

\* C18: when the requested number of threads is zero or negative, main()
\* runs no experiment and does not return 0.
C18_InvalidCountRejected ==
    (cliPc # "parse" /\ InvalidCountRequested) => (runs = {} /\ exitCode # 0)

\* The command line asks for a duration that is zero or negative.
InvalidDurationRequested == argv.d \in {"-1", "0"}

\* C19: when the requested duration is zero or negative, main() runs no
\* experiment and does not return 0.
C19_InvalidDurationRejected ==
    (cliPc # "parse" /\ InvalidDurationRequested) => (runs = {} /\ exitCode # 0)

\* Number of workers holding the ticket lock.
TicketOwners == Cardinality({t \in Workers : InCritical(t)})

\* C20: with counters of TicketBits bits and fewer than 2^(TicketBits - 1)
\* workers, however often next_ and serving_ wrap: the distance from serving_
\* to next_, taken modulo 2^TicketBits, is the number of workers holding or
\* waiting; the waiters hold consecutive tickets (modulo 2^TicketBits) in
\* their order of arrival; at most one worker holds the lock; and a wait
\* loop is left only by the longest-waiting worker.
C20_WrapHarmless ==
    /\ [](numThreads < 2 ^ (TicketBits - 1) =>
              /\ AtMostOneInCritical
              /\ U32(next_ + Modulus - serving_) = Len(order) + TicketOwners
              /\ \A i \in 1 .. Len(order) :
                     my[order[i]] = U32(serving_ + TicketOwners + i - 1))
    /\ [][\A t \in Workers :
              (/\ numThreads < 2 ^ (TicketBits - 1)
               /\ pc[t] \in {"ticket_spin", "ticket_relax"}
               /\ pc'[t] = "locked")
                  => (Head(order) = t /\ TicketOwners = 0)]_vars

\* The counters have wrapped: serving_ is at its largest value while next_
\* has started again from 0, with one worker holding the lock and two
\* waiting behind it.
C20_Witness ==
    /\ serving_ = Modulus - 1
    /\ next_ = 2
    /\ TicketOwners = 1
    /\ Len(order) = 2

\* The positive entries of the -T list of the command line.
RequestedList == SelectSeq([i \in 1 .. Len(argv.T) |-> Atoi(argv.T[i])], LAMBDA x : x > 0)

\* The counts of a list, as a set.
Counts(q) == {q[i] : i \in 1 .. Len(q)}

\* C21: once main() has built threadCounts, the counts of a -T list with a
\* usable entry are the counts it sweeps, whatever -t and -B say; and with
\* none of -t, -T, -B given it sweeps 1, 2, 4, 8, 16, 32.
C21_ListOverrides ==
    cliPc = "loop" =>
        /\ RequestedList # <<>> => Counts(threadCounts) = Counts(RequestedList)
        /\ (argv.t = "" /\ argv.T = <<>> /\ argv.B = <<>>)
               => threadCounts = <<1, 2, 4, 8, 16, 32>>

\* The state of worker t's queue node: Enqueued from the exchange on tail_
\* while its locked flag is set, Held from then to the end of the hand-over
\* in unlock(), Idle otherwise.
NodeState(t) ==
    IF pc[t] \in {"mcs_link", "mcs_wait", "mcs_direct"}
      THEN IF node_locked[t] THEN "Enqueued" ELSE "Held"
      ELSE IF pc[t] \in CriticalPcs \cup {"mcs_cas", "mcs_await_succ", "mcs_pass"}
             THEN "Held"
             ELSE "Idle"

\* C22: a McsLock node changes state only Idle -> Enqueued -> Held -> Idle;
\* a change is made by a step of the node's owner, except that a waiting
\* node goes from Enqueued to Held by the step of the worker whose unlock()
\* clears the flag of its successor, and never by a step of its owner.
C22_NodeCycle ==
    [][\A t \in Workers :
          NodeState(t)' # NodeState(t) =>
              /\ <<NodeState(t), NodeState(t)'>> \in
                     {<<"Idle", "Enqueued">>, <<"Enqueued", "Held">>, <<"Held", "Idle">>}
              /\ IF pc[t] = "mcs_wait"
                   THEN /\ pc'[t] = pc[t]
                        /\ \E u \in Workers \ {t} :
                               /\ pc[u] = "mcs_pass"
                               /\ succ[u] = t
                               /\ pc'[u] = "mcs_unlink"
                   ELSE pc'[t] # pc[t]]_vars

\* A waiting node is Held through the store of its predecessor, which has
\* not yet finished its unlock().
C22_Witness ==
    \E t \in Workers, u \in Workers :
        /\ pc[t] = "mcs_wait"
        /\ NodeState(t) = "Held"
        /\ pc[u] = "mcs_unlink"
        /\ succ[u] = t

\* Workers of TicketLockPreLoad that have taken a ticket and not yet
\* finished unlock().
PreLoadTicketed == {t \in Workers : pc[t] = "tp_wait" \/ InCritical(t)}

\* C23: with TicketLockPreLoad, next_ is ahead of serving_ by 0 or 1 (modulo
\* 2^TicketBits), at most one worker has a ticket, and a worker whose CAS
\* succeeded finds serving_ equal to its ticket.
C23_NoTicketWhileHeld ==
    lock_ = "ticket_preload" =>
        /\ U32(next_ + Modulus - serving_) \in {0, 1}
        /\ Cardinality(PreLoadTicketed) <= 1
        /\ \A t \in Workers : pc[t] = "tp_wait" => serving_ = n[t]

\* Workers of McsLockPreLoad between a successful CAS on tail_ in lock() and
\* the CAS of their unlock().
PreLoadOwners == {t \in Workers : pc[t] = "mp_clear_locked" \/ InCritical(t)}

\* C24: with McsLockPreLoad, tail_ is null when no worker owns the lock and
\* the owner's node otherwise, no node's next is ever non-null, and the CAS
\* of unlock() always finds tail_ = &me and leaves it null.
C24_DirectAcquire ==
    /\ [](lock_ = "mcs_preload" =>
              /\ PreLoadOwners = IF tail_ = Null THEN {} ELSE {tail_}
              /\ \A t \in Workers : node_next[t] = Null)
    /\ [][\A t \in Workers :
              (lock_ = "mcs_preload" /\ pc[t] = "unlock" /\ pc'[t] = "mp_unlink")
                  => (tail_ = t /\ tail_' = Null)]_vars

\* A worker has released the lock and, before its unlock() returns, another
\* worker has acquired it.
C24_Witness ==
    \E t \in Workers, u \in Workers :
        /\ lock_ = "mcs_preload"
        /\ pc[t] = "mp_unlink"
        /\ tail_ = u
        /\ pc[u] = "locked"

\* The remembered rounds of a wait loop of TicketBackOff or
\* TicketBackOffAndPreFetch.
BackOffRounds ==
    IF lock_ \in {"ticket_backoff", "ticket_backoff_prefetch"}
      THEN {waits[i] : i \in 1 .. Len(waits)}
      ELSE {}

AdaptiveRounds ==
    IF lock_ = "ticket_adaptive" THEN {waits[i] : i \in 1 .. Len(waits)} ELSE {}

\* The bands of the schedule of TicketAdaptive: 1 near, 2 and 3 middle, 4 far.
Band(d) == IF d <= 1 THEN 1 ELSE IF d <= 4 THEN 2 ELSE IF d <= 16 THEN 3 ELSE 4

\* C26: a round of the wait loop of TicketAdaptive pauses at most 512 relax
\* cycles, 16 at distance 1, 512 at every distance above 16; of two rounds
\* the one at the larger distance pauses at least as long; within a middle
\* band the pause grows by the same amount for every step of the distance;
\* and the waiter does not yield.
C26_AdaptiveSchedule ==
    /\ \A r \in AdaptiveRounds :
           /\ r.cycles <= 512
           /\ r.d <= 1 => r.cycles = 16
           /\ r.d > 16 => r.cycles = 512
           /\ ~r.yielded
    /\ \A q, r \in AdaptiveRounds :
           /\ q.d <= r.d => q.cycles <= r.cycles
           /\ (Band(q.d) = Band(r.d) /\ Band(q.d) \in {2, 3})
                  => r.cycles - q.cycles = 16 * (r.d - q.d)

\* A round in the last step of the upper middle band follows a round at the
\* first far distance.
C26_Witness ==
    /\ lock_ = "ticket_adaptive"
    /\ Len(waits) = 2
    /\ waits[1].d = 17
    /\ waits[1].cycles = 512
    /\ waits[2].d = 16
    /\ waits[2].cycles = 320

\* The lock is in the state its constructor left it in, up to the common
\* value of the two ticket counters: fresh threads can use it.
LockFree ==
    /\ ~flag_
    /\ state_ = 0
    /\ next_ = serving_
    /\ tail_ = Null
    /\ \A t \in Workers : prev[t] = Null /\ succ[t] = Null

\* Worker t is inside lock(), holds the lock, or is inside unlock().
Engaged(t) == pc[t] \in TryingPcs \cup CriticalPcs \cup UnlockingPcs

\* C27: a worker calls lock() only from the top of its loop, holding nothing;
\* it holds the lock only after lock(), runs unlock() only while it holds the
\* lock, and counts the iteration only after unlock(); it leaves the loop
\* only from its top, holding no lock and queued nowhere.  When run_test
\* has returned, and when it is entered again, every worker has returned and
\* the lock is free.
C27_PairedAndQuiescent ==
    /\ [](\A t \in Workers : pc[t] \in ExitedPcs => HoldsNothing(t))
    /\ [](mainPc = "done" => LockFree /\ \A t \in Workers : pc[t] = "finished")
    /\ [](mainPc = "create" => LockFree /\ \A t \in Workers : ~Engaged(t))
    /\ [][\A t \in Workers :
            pc'[t] # pc[t] =>
               /\ pc[t] = "top" => pc'[t] \in {"lock", "exit"} /\ HoldsNothing(t)
               /\ pc'[t] \in TryingPcs => pc[t] \in {"top"} \cup TryingPcs
               /\ pc'[t] \in CriticalPcs \ {"unlock"} => pc[t] \in TryingPcs \cup CriticalPcs
               /\ pc'[t] = "unlock" => pc[t] \in CriticalPcs
               /\ pc'[t] \in UnlockingPcs => pc[t] \in {"unlock"} \cup UnlockingPcs
               /\ pc'[t] = "parallel" => pc[t] \in {"unlock"} \cup UnlockingPcs
               /\ pc'[t] = "top" => pc[t] \in {"wait_start", "parallel"}
               /\ pc'[t] = "exit" => pc[t] = "top" /\ HoldsNothing(t)]_vars

\* A later run_test on a ticket lock that earlier runs used is creating its
\* workers: one exists, the other does not yet.
C27_Witness ==
    /\ lock_ = "ticket"
    /\ numThreads = 2
    /\ mainPc = "create"
    /\ serving_ >= 2
    /\ pc[1] = "wait_start"
    /\ pc[2] = "unborn"

\* Worker t has performed the tail_ exchange of McsLock::lock() and has not
\* yet returned from the matching unlock().
McsExchanged(t) ==
    pc[t] \in {"mcs_link", "mcs_wait", "mcs_direct"} \cup CriticalPcs \cup UnlockingPcs

\* Worker t has performed the exchange and has not yet handed the lock on:
\* its unlock() has neither won the CAS on tail_ nor cleared the successor's
\* flag.
McsQueued(t) ==
    pc[t] \in {"mcs_link", "mcs_wait", "mcs_direct"} \cup CriticalPcs
                 \cup {"mcs_cas", "mcs_await_succ", "mcs_pass"}

\* Worker t holds the McsLock: lock() has returned, the hand-off of unlock()
\* has not happened.
McsHolder(t) == pc[t] \in CriticalPcs \cup {"mcs_cas", "mcs_await_succ", "mcs_pass"}

\* Worker t spins on the flag of its node, which is linked and raised.
McsWaiting(t) == pc[t] = "mcs_wait" /\ node_locked[t]

RECURSIVE McsChain(_, _)
\* The nodes met by following at most k next links from the node of t.
McsChain(t, k) ==
    IF k = 0 \/ node_next[t] = Null THEN <<>>
    ELSE <<node_next[t]>> \o McsChain(node_next[t], k - 1)

\* tail_ changes only in an exchange, which makes it the node of the worker
\* exchanging, and in a CAS to null; every exchange sets it.  So a non-null
\* tail_ is the node of the worker whose exchange was the most recent.
McsTailIsLastExchanger ==
    [][/\ tail_' # tail_ =>
             \/ tail_' = Null
             \/ \E t \in Workers : pc[t] = "mcs_exchange" /\ pc'[t] # pc[t] /\ tail_' = t
       /\ \A t \in Workers : (pc[t] = "mcs_exchange" /\ pc'[t] # pc[t]) => tail_' = t]_vars

\* From the node of a holder the next links lead through waiting workers
\* only, through none twice, and not back to the holder.
McsChainOfWaiters ==
    \A h \in Workers :
        McsHolder(h) =>
            LET q == McsChain(h, numThreads)
            IN  /\ \A i \in 1 .. Len(q) : McsWaiting(q[i]) /\ q[i] # h
                /\ \A i, j \in 1 .. Len(q) : q[i] = q[j] => i = j

\* C28 as the specification states it: tail_ is null exactly when no worker
\* is between its exchange and the return of the matching unlock().
C28_AsStated ==
    /\ []((tail_ = Null) <=> (\A t \in Workers : ~McsExchanged(t)))
    /\ [](tail_ # Null => tail_ \in Workers)
    /\ McsTailIsLastExchanger
    /\ []McsChainOfWaiters

\* C28: tail_ is null exactly when no worker is between its exchange and the
\* hand-off of the matching unlock() (the CAS on tail_ that succeeds, or the
\* store that clears the successor's flag); a non-null tail_ is the node of
\* the worker whose exchange was the most recent; the next links from a
\* holder's node lead through waiting workers only, each once.
C28_TailInvariant ==
    /\ []((tail_ = Null) <=> (\A t \in Workers : ~McsQueued(t)))
    /\ [](tail_ # Null => McsQueued(tail_))
    /\ McsTailIsLastExchanger
    /\ []McsChainOfWaiters

\* Worker 1 holds the lock, 2 and 3 wait in that order; tail_ is the node
\* of worker 3.
C28_Witness ==
    /\ lock_ = "mcs"
    /\ McsHolder(1)
    /\ McsChain(1, numThreads) = <<2, 3>>
    /\ tail_ = 3

\* C29: the count a worker reports, and the count of a worker that has left
\* the loop, is a multiple of checkEvery (0 included); so is the total
\* run_test returns.
C29_CountsAreStrides ==
    /\ \A t \in Workers :
          /\ results[t] % checkEvery = 0
          /\ pc[t] \in ExitedPcs => localCount[t] % checkEvery = 0
    /\ mainPc = "done" => total % checkEvery = 0

\* run_test has returned two strides: one worker reported none, two reported
\* one stride each.
C29_Witness ==
    /\ mainPc = "done"
    /\ numThreads = 3
    /\ results[1] = checkEvery
    /\ results[2] = 0
    /\ results[3] = checkEvery
    /\ total = 2 * checkEvery

\* Worker t is inside lock() of a queueing lock with its place in the queue
\* taken: next_.fetch_add has given it a ticket, or tail_.exchange has
\* enqueued its node.
Enqueued(t) ==
    \/ lock_ \in QueueingTicketKinds /\ pc[t] \in {"ticket_spin", "ticket_relax"}
    \/ lock_ = "mcs" /\ pc[t] \in {"mcs_link", "mcs_wait", "mcs_direct"}

\* C30: with every thread kept running, a worker that has taken its ticket
\* or exchanged its node into tail_ returns from lock() at some later time;
\* an unlock() of McsLock that lost the CAS on tail_ gets to see its
\* successor, and it leaves the hand-off only with the flag of that
\* successor cleared.
C30_StarvationFree ==
    /\ \A t \in 1 .. MaxThreads :
          (t \in Workers /\ Enqueued(t)) ~> (t \in Workers /\ pc[t] = "locked")
    /\ \A t \in 1 .. MaxThreads :
          (t \in Workers /\ pc[t] = "mcs_await_succ")
              ~> (t \in Workers /\ pc[t] = "mcs_pass" /\ succ[t] # Null)
    /\ [][\A t \in Workers :
            (pc[t] = "mcs_pass" /\ pc'[t] # pc[t]) =>
                /\ succ[t] \in Workers
                /\ node_locked[succ[t]]
                /\ ~node_locked'[succ[t]]]_vars

\* The unlock() of worker 1 has lost the CAS on tail_ to worker 2, which has
\* not linked its node yet; worker 3 has enqueued behind worker 2.
C30_Witness ==
    /\ lock_ = "mcs"
    /\ numThreads = 3
    /\ pc[1] = "mcs_await_succ"
    /\ pc[2] = "mcs_link"
    /\ pc[3] = "mcs_wait"
    /\ tail_ = 3

====
